---- MODULE Spec2Model ----
(***************************************************************************)
(* A model of the esc-lang bytecode virtual machine (src/src/vm.ts) and    *)
(* of its bytecode compiler (src/src/compiler.ts).                         *)
(*                                                                         *)
(* A Value is a record [type, n, d, s, b, ref].  Numbers are the rational  *)
(* n/d (d > 0, lowest terms), standing for the doubles the bounded         *)
(* programs compute.  Lists, tuples and functions are JavaScript objects:  *)
(* their Value carries a reference ref into vm.heap, so that aliasing and  *)
(* the === of EQ are those of the source.  A serialized (JSON) value is a  *)
(* tree [type, n, d, s, b, elems, fn] with no references.                  *)
(***************************************************************************)
EXTENDS Integers, Sequences, FiniteSets, TLC

(***************************************************************************)
(* Values                                                                  *)
(***************************************************************************)
NoVal == -1

MkValue(t, n, d, s, b, r) ==
    [type |-> t, n |-> n, d |-> d, s |-> s, b |-> b, ref |-> r]

RECURSIVE GCD(_, _)
GCD(a, b) == IF b = 0 THEN a ELSE GCD(b, a % b)

Abs(x) == IF x < 0 THEN -x ELSE x

\* Value.number of the rational n/d (d # 0), in lowest terms with d > 0.
Rat(n, d) ==
    LET g  == GCD(Abs(n), Abs(d))
        sg == IF d < 0 THEN -1 ELSE 1
    IN  MkValue("number", sg * (n \div g), Abs(d) \div g, "", FALSE, 0)

Num(n)        == MkValue("number", n, 1, "", FALSE, 0)
Str(s)        == MkValue("string", 0, 1, s, FALSE, 0)
Bool(b)       == MkValue("boolean", 0, 1, "", b, 0)
Null          == MkValue("null", 0, 1, "", FALSE, 0)
NativeV(name) == MkValue("native", 0, 1, name, FALSE, 0)
SyscallV(name) == MkValue("syscall", 0, 1, name, FALSE, 0)
ListV(r)      == MkValue("list", 0, 1, "", FALSE, r)
TupleV(r)     == MkValue("tuple", 0, 1, "", FALSE, r)
FuncV(r)      == MkValue("function", 0, 1, "", FALSE, r)
\* JavaScript's undefined (an array hole, a null read back from JSON): any
\* read of .type or .value of it throws a TypeError.
Undef         == MkValue("undefined", 0, 1, "", FALSE, 0)

IsRef(v) == v.type \in {"list", "tuple", "function"}

\* Truthiness of v.value, as JUMPF and JUMPT test it.
Truthy(v) ==
    CASE v.type = "number"  -> v.n # 0
      [] v.type = "string"  -> v.s # ""
      [] v.type = "boolean" -> v.b
      [] v.type = "null"    -> FALSE
      [] OTHER              -> TRUE

\* The integer quotient rounded towards zero, as JavaScript's % needs it.
TruncDiv(p, q) ==
    LET m == Abs(p) \div Abs(q)
    IN  IF (p < 0) = (q < 0) THEN m ELSE -m

(***************************************************************************)
(* Instructions, heap cells                                                *)
(***************************************************************************)
Instruction(type, lineNumber, value) ==
    [type |-> type, value |-> value, lineNumber |-> lineNumber]

NoFunction == [name |-> "", args |-> <<>>, body |-> <<>>]

\* The array behind a list or tuple Value.  props holds, as <<key, value>>
\* pairs, the non-index properties that a store with a negative or fractional
\* key creates on the JavaScript array.
ArrayCell(elems) ==
    [kind |-> "array", elems |-> elems, props |-> <<>>, fn |-> NoFunction]

\* The Function object behind a function Value.
FunctionCell(name, args, body) ==
    [kind |-> "function", elems |-> <<>>, props |-> <<>>,
     fn |-> [name |-> name, args |-> args, body |-> body]]

CallFrame(ip, stack, text) == [ip |-> ip, stack |-> stack, text |-> text]

NoSyscall == [set |-> FALSE, name |-> "", args |-> <<>>]
Syscall(name, args) == [set |-> TRUE, name |-> name, args |-> args]

(***************************************************************************)
(* The VM: [data, frames, globals, syscall, heap]                          *)
(***************************************************************************)
Halted(vm) == Len(vm.frames) = 0

TopIndex(vm) == Len(vm.frames)
Top(vm)      == vm.frames[TopIndex(vm)]
Ip(vm)       == Top(vm).ip
Stack(vm)    == Top(vm).stack
Text(vm)     == Top(vm).text

WithStack(vm, st) == [vm EXCEPT !.frames[TopIndex(vm)].stack = st]
WithIp(vm, ip)    == [vm EXCEPT !.frames[TopIndex(vm)].ip = ip]
PushValue(vm, v)  == WithStack(vm, Append(Stack(vm), v))

\* new Value(LIST | TUPLE, elements): a fresh array on the heap.
Alloc(vm, cell) == [vm EXCEPT !.heap = Append(vm.heap, cell)]
NextRef(vm)     == Len(vm.heap) + 1

\* The outcome of execute: the VM as the instruction left it and the
\* error thrown ("" when it returned), with the line the error carries.
Ok(vm)                == [vm |-> vm, err |-> "", line |-> 0]
Throw(vm, kind, line) == [vm |-> vm, err |-> kind, line |-> line]

\* Stack.pop on an empty stack.
Underflow(vm) == Throw(WithStack(vm, <<>>), "CompilerBug", 0)

Front(st, k) == SubSeq(st, 1, Len(st) - k)
Last(st)     == st[Len(st)]
TailN(st, k) == SubSeq(st, Len(st) - k + 1, Len(st))

\* array[i] of a JavaScript array, i a number Value.
PropLookup(props, key) ==
    LET hits == {i \in 1..Len(props) : props[i][1] = key}
    IN  IF hits = {} THEN Undef
        ELSE props[CHOOSE i \in hits : \A j \in hits : j <= i][2]

ArrayGet(cell, key) ==
    IF key.d = 1 /\ key.n >= 0
    THEN IF key.n < Len(cell.elems) THEN cell.elems[key.n + 1] ELSE Undef
    ELSE PropLookup(cell.props, <<key.n, key.d>>)

\* array[i] = v: in range it replaces, past the end it extends the array
\* with holes, and any other key becomes a property of the object.
ArraySet(cell, key, v) ==
    IF key.d = 1 /\ key.n >= 0
    THEN IF key.n < Len(cell.elems)
         THEN [cell EXCEPT !.elems[key.n + 1] = v]
         ELSE [cell EXCEPT !.elems =
                  cell.elems
                  \o [i \in 1..(key.n - Len(cell.elems)) |-> Undef]
                  \o <<v>>]
    ELSE [cell EXCEPT !.props = Append(cell.props, <<<<key.n, key.d>>, v>>)]

NumAdd(b, a) == Rat(b.n * a.d + a.n * b.d, b.d * a.d)
NumSub(b, a) == Rat(b.n * a.d - a.n * b.d, b.d * a.d)
NumMul(b, a) == Rat(b.n * a.n, b.d * a.d)
NumDiv(b, a) == Rat(b.n * a.d, b.d * a.n)
NumMod(b, a) ==
    LET q == TruncDiv(b.n * a.d, b.d * a.n)
    IN  Rat(b.n * a.d - a.n * q * b.d, b.d * a.d)
NumLt(b, a)  == b.n * a.d < a.n * b.d
NumLte(b, a) == b.n * a.d <= a.n * b.d

\* a.type === b.type && b.value === a.value: for a list, a tuple or a
\* function the payloads are objects and === is the identity of the object.
StrictEq(a, b) == a = b

(***************************************************************************)
(* The host registries ./native and ./syscall                              *)
(***************************************************************************)
NativeNames  == {"len", "number"}
SyscallNames == {"syscall", "input"}

NativeArity(name) == 1

\* parseFloat of the strings the programs use.
ParseNumber(s) ==
    CASE s = "3"  -> 3
      [] s = "12" -> 12
      [] OTHER    -> NoVal

\* natives[name].function(lineNumber, args)
NativeFunction(vm, name, line, args) ==
    LET x == args[1]
    IN  IF x = Undef THEN Throw(vm, "TypeError", 0)
        ELSE IF name = "len"
        THEN IF x.type = "string" THEN Ok(PushValue(vm, Num(Len(x.s))))
             ELSE IF x.type \in {"list", "tuple"}
             THEN Ok(PushValue(vm, Num(Len(vm.heap[x.ref].elems))))
             ELSE Throw(vm, "InvalidType", line)
        ELSE IF x.type = "number" THEN Ok(PushValue(vm, x))
             ELSE IF x.type = "string" /\ ParseNumber(x.s) # NoVal
             THEN Ok(PushValue(vm, Num(ParseNumber(x.s))))
             ELSE Throw(vm, "InvalidFormat", line)

\* syscalls[name].syscallId and syscalls[name].preprocessor(args, line)
SyscallId(name) == name
Preprocessor(name, args, line) == args

(***************************************************************************)
(* VM.execute, opcode by opcode                                            *)
(***************************************************************************)
\* OR, AND: a.type is read first, and b.type only when a is a boolean.
ExecLogic(vm, ins, b, a) ==
    IF a = Undef THEN Throw(vm, "TypeError", 0)
    ELSE IF a.type # "boolean" THEN Throw(vm, "InvalidType", ins.lineNumber)
    ELSE IF b = Undef THEN Throw(vm, "TypeError", 0)
    ELSE IF b.type # "boolean" THEN Throw(vm, "InvalidType", ins.lineNumber)
    ELSE Ok(PushValue(vm, Bool(IF ins.type = "or" THEN b.b \/ a.b
                                                   ELSE b.b /\ a.b)))

\* ADD that concatenates into a fresh list whatever its operand is.
ExecAddAlwaysFresh(vm, ins, b, a) ==
    IF a = Undef \/ b = Undef THEN Throw(vm, "TypeError", 0)
    ELSE IF a.type = "number" /\ b.type = "number"
    THEN Ok(PushValue(vm, NumAdd(b, a)))
    ELSE IF a.type = "string" /\ b.type = "string"
    THEN Ok(PushValue(vm, Str(b.s \o a.s)))
    ELSE IF a.type = "list" /\ b.type = "list"
    THEN Ok(PushValue(
              Alloc(vm, ArrayCell(vm.heap[b.ref].elems
                                  \o vm.heap[a.ref].elems)),
              ListV(NextRef(vm))))
    ELSE Throw(vm, "InvalidType", ins.lineNumber)

ExecAdd(vm, ins, b, a) ==
    IF a = Undef \/ b = Undef THEN Throw(vm, "TypeError", 0)
    ELSE IF a.type = "number" /\ b.type = "number"
    THEN Ok(PushValue(vm, NumAdd(b, a)))
    ELSE IF a.type = "string" /\ b.type = "string"
    THEN Ok(PushValue(vm, Str(b.s \o a.s)))
    ELSE IF a.type = "list" /\ b.type = "list"
    THEN IF ins.value = 1
         THEN \* b.value.push(...a.value); this.stack.push(b)
              Ok(PushValue(
                   [vm EXCEPT !.heap[b.ref].elems =
                        vm.heap[b.ref].elems \o vm.heap[a.ref].elems],
                   b))
         ELSE \* Value.list(b.value.concat(a.value))
              Ok(PushValue(
                   Alloc(vm, ArrayCell(vm.heap[b.ref].elems
                                       \o vm.heap[a.ref].elems)),
                   ListV(NextRef(vm))))
    ELSE Throw(vm, "InvalidType", ins.lineNumber)

ExecSub(vm, ins, b, a) ==
    IF a = Undef \/ b = Undef THEN Throw(vm, "TypeError", 0)
    ELSE IF a.type # "number" \/ b.type # "number"
    THEN Throw(vm, "InvalidType", ins.lineNumber)
    ELSE Ok(PushValue(vm, NumSub(b, a)))

\* Arithmetic whose zero check looks at the left operand.
ExecNumericLeftZero(vm, ins, b, a) ==
    IF a = Undef \/ b = Undef THEN Throw(vm, "TypeError", 0)
    ELSE IF a.type # "number" \/ b.type # "number"
    THEN Throw(vm, "InvalidType", ins.lineNumber)
    ELSE IF ins.type \in {"div", "MOD"} /\ (b.n = 0 \/ a.n = 0)
    THEN IF b.n = 0 THEN Throw(vm, "DivisionByZero", ins.lineNumber)
         ELSE Ok(PushValue(vm, Num(0)))
    ELSE Ok(PushValue(vm,
            CASE ins.type = "mul" -> NumMul(a, b)
              [] ins.type = "div" -> NumDiv(b, a)
              [] ins.type = "MOD" -> NumMod(b, a)
              [] ins.type = "lt"  -> Bool(NumLt(b, a))
              [] ins.type = "gt"  -> Bool(NumLt(a, b))
              [] ins.type = "lte" -> Bool(NumLte(b, a))
              [] ins.type = "gte" -> Bool(NumLte(a, b))))

\* MUL, DIV, MOD, LT, GT, LTE, GTE: a is checked, then b.
ExecNumeric(vm, ins, b, a) ==
    IF a = Undef THEN Throw(vm, "TypeError", 0)
    ELSE IF a.type # "number" THEN Throw(vm, "InvalidType", ins.lineNumber)
    ELSE IF b = Undef THEN Throw(vm, "TypeError", 0)
    ELSE IF b.type # "number" THEN Throw(vm, "InvalidType", ins.lineNumber)
    ELSE IF ins.type \in {"div", "MOD"} /\ a.n = 0
    THEN Throw(vm, "DivisionByZero", ins.lineNumber)
    ELSE Ok(PushValue(vm,
            CASE ins.type = "mul" -> NumMul(a, b)
              [] ins.type = "div" -> NumDiv(b, a)
              [] ins.type = "MOD" -> NumMod(b, a)
              [] ins.type = "lt"  -> Bool(NumLt(b, a))
              [] ins.type = "gt"  -> Bool(NumLt(a, b))
              [] ins.type = "lte" -> Bool(NumLte(b, a))
              [] ins.type = "gte" -> Bool(NumLte(a, b))))

ExecEq(vm, ins, b, a) ==
    IF a = Undef \/ b = Undef THEN Throw(vm, "TypeError", 0)
    ELSE IF ins.type = "eq" THEN Ok(PushValue(vm, Bool(StrictEq(a, b))))
    ELSE Ok(PushValue(vm, Bool(~StrictEq(a, b))))

BinaryOpcodes ==
    {"or", "and", "add", "sub", "mul", "div", "MOD",
     "lt", "gt", "lte", "gte", "eq", "neq"}

\* const a = this.stack.pop(); const b = this.stack.pop(); ...
ExecBinary(vm, ins) ==
    LET st == Stack(vm)
    IN  IF Len(st) < 2 THEN Underflow(vm)
        ELSE LET a   == st[Len(st)]
                 b   == st[Len(st) - 1]
                 vm2 == WithStack(vm, Front(st, 2))
             IN  CASE ins.type \in {"or", "and"} -> ExecLogic(vm2, ins, b, a)
                   [] ins.type = "add"           -> ExecAdd(vm2, ins, b, a)
                   [] ins.type = "sub"           -> ExecSub(vm2, ins, b, a)
                   [] ins.type \in {"eq", "neq"} -> ExecEq(vm2, ins, b, a)
                   [] OTHER                      -> ExecNumeric(vm2, ins, b, a)

UnaryOpcodes == {"neg", "inc", "dec", "not"}

\* NEG, INC, DEC, NOT
ExecUnary(vm, ins) ==
    LET st == Stack(vm)
    IN  IF Len(st) < 1 THEN Underflow(vm)
        ELSE LET a    == Last(st)
                 vm2  == WithStack(vm, Front(st, 1))
                 want == IF ins.type = "not" THEN "boolean" ELSE "number"
             IN  IF a = Undef THEN Throw(vm2, "TypeError", 0)
                 ELSE IF a.type # want
                 THEN Throw(vm2, "InvalidType", ins.lineNumber)
                 ELSE Ok(PushValue(vm2,
                         CASE ins.type = "neg" -> Rat(-a.n, a.d)
                           [] ins.type = "inc" -> NumAdd(a, Num(1))
                           [] ins.type = "dec" -> NumSub(a, Num(1))
                           [] ins.type = "not" -> Bool(~a.b)))

\* JUMP, JUMPF, JUMPT: ip = value - 1, and run() then increments ip.
ExecJump(vm, ins) ==
    IF ins.type = "jump" THEN Ok(WithIp(vm, ins.value - 1))
    ELSE LET st == Stack(vm)
         IN  IF Len(st) < 1 THEN Underflow(vm)
             ELSE LET c   == Last(st)
                      vm2 == WithStack(vm, Front(st, 1))
                  IN  IF c = Undef THEN Throw(vm2, "TypeError", 0)
                      ELSE IF Truthy(c) = (ins.type = "jumpt")
                      THEN Ok(WithIp(vm2, ins.value - 1))
                      ELSE Ok(vm2)

\* array[i] = v on the operand stack (STORE): past the end it leaves holes.
SeqSet(st, i, v) ==
    IF i < Len(st) THEN [st EXCEPT ![i + 1] = v]
    ELSE st \o [j \in 1..(i - Len(st)) |-> Undef] \o <<v>>

SeqGet(st, i) == IF i >= 0 /\ i < Len(st) THEN st[i + 1] ELSE Undef

\* CALL on a Native value
ExecCallNative(vm, ins, func, args) ==
    IF func.s \notin NativeNames THEN Throw(vm, "CompilerBug", 0)
    ELSE IF NativeArity(func.s) # ins.value
    THEN Throw(vm, "NativeFunctionArgumentNumberMismatch", ins.lineNumber)
    ELSE NativeFunction(vm, func.s, ins.lineNumber, args)

\* A CALL of a function whose new frame starts at ip = 0, so that run()
\* moves it past body[0] before anything is fetched.
ExecCallFunctionAtZero(vm, ins, func, args) ==
    IF Len(vm.heap[func.ref].fn.args) # ins.value
    THEN Throw(vm, "FunctionArgumentNumberMismatch", ins.lineNumber)
    ELSE Ok([vm EXCEPT !.frames =
                Append(vm.frames,
                       CallFrame(0, <<func>> \o args, vm.heap[func.ref].fn.body))])

\* A CALL whose new frame holds the arguments only.
ExecCallFunctionArgsOnly(vm, ins, func, args) ==
    IF Len(vm.heap[func.ref].fn.args) # ins.value
    THEN Throw(vm, "FunctionArgumentNumberMismatch", ins.lineNumber)
    ELSE Ok([vm EXCEPT !.frames =
                Append(vm.frames,
                       CallFrame(-1, args, vm.heap[func.ref].fn.body))])

\* CALL on a Function value: a new frame [callee, arg0, ...] with ip = -1.
ExecCallFunction(vm, ins, func, args) ==
    LET fn == vm.heap[func.ref].fn
    IN  IF Len(fn.args) # ins.value
        THEN Throw(vm, "FunctionArgumentNumberMismatch", ins.lineNumber)
        ELSE Ok([vm EXCEPT !.frames =
                    Append(vm.frames, CallFrame(-1, <<func>> \o args, fn.body))])

\* A trap that pushes a result for the CALL before it suspends.
ExecCallSyscallPushing(vm, ins, func, args) ==
    IF func.s \notin SyscallNames THEN Throw(vm, "CompilerBug", 0)
    ELSE IF func.s # "syscall"
    THEN Ok([PushValue(vm, Null) EXCEPT !.syscall = Syscall(func.s, args)])
    ELSE IF Len(args) = 0 \/ args[1].type # "string"
    THEN Throw(vm, "InvalidType", ins.lineNumber)
    ELSE Ok([PushValue(vm, Null) EXCEPT
               !.syscall = Syscall(args[1].s, Tail(args))])

\* A trap that leaves the name among the arguments of the generic syscall.
ExecCallSyscallUnshifted(vm, ins, func, args) ==
    IF func.s \notin SyscallNames THEN Throw(vm, "CompilerBug", 0)
    ELSE IF func.s # "syscall"
    THEN Ok([vm EXCEPT !.syscall = Syscall(func.s, args)])
    ELSE IF Len(args) = 0 \/ args[1].type # "string"
    THEN Throw(vm, "InvalidType", ins.lineNumber)
    ELSE Ok([vm EXCEPT !.syscall = Syscall(args[1].s, args)])

\* CALL on a Syscall value: the trap record is set and nothing is pushed.
ExecCallSyscall(vm, ins, func, args) ==
    IF func.s \notin SyscallNames THEN Throw(vm, "CompilerBug", 0)
    ELSE LET processedArgs == Preprocessor(func.s, args, ins.lineNumber)
         IN  IF func.s = "syscall"
             THEN IF Len(processedArgs) = 0 \/ processedArgs[1] = Undef
                  THEN Throw(vm, "TypeError", 0)
                  ELSE IF processedArgs[1].type # "string"
                  THEN Throw(vm, "InvalidType", ins.lineNumber)
                  ELSE Ok([vm EXCEPT !.syscall =
                              Syscall(processedArgs[1].s, Tail(processedArgs))])
             ELSE Ok([vm EXCEPT !.syscall =
                         Syscall(SyscallId(func.s), processedArgs)])

ExecCall(vm, ins) ==
    LET st == Stack(vm)
        n  == IF ins.value = NoVal THEN 0 ELSE ins.value
    IN  IF Len(st) < n + 1 THEN Underflow(vm)
        ELSE LET args == TailN(st, n)
                 func == st[Len(st) - n]
                 vm2  == WithStack(vm, Front(st, n + 1))
             IN  CASE func = Undef           -> Throw(vm2, "TypeError", 0)
                   [] func.type = "native"   -> ExecCallNative(vm2, ins, func, args)
                   [] func.type = "function" -> ExecCallFunction(vm2, ins, func, args)
                   [] func.type = "syscall"  -> ExecCallSyscall(vm2, ins, func, args)
                   [] OTHER -> Throw(vm2, "InvalidType", ins.lineNumber)

\* A RET that hands Null to the caller whatever its operand.
ExecRetDiscarding(vm, ins) ==
    IF Len(vm.frames) < 2 THEN Throw(vm, "TypeError", 0)
    ELSE Ok([vm EXCEPT
               !.frames = Front(
                  [vm.frames EXCEPT ![Len(vm.frames) - 1].stack =
                      Append(vm.frames[Len(vm.frames) - 1].stack, Null)],
                  1)])

\* RET: this.frames.at(-2) is undefined in the root frame, and reading its
\* .stack throws before anything is popped.
ExecRet(vm, ins) ==
    IF Len(vm.frames) < 2 THEN Throw(vm, "TypeError", 0)
    ELSE LET caller == Len(vm.frames) - 1
             st     == Stack(vm)
         IN  IF ins.value = 1
             THEN IF Len(st) < 1 THEN Underflow(vm)
                  ELSE Ok([vm EXCEPT
                             !.frames = Front(
                                [vm.frames EXCEPT ![caller].stack =
                                    Append(vm.frames[caller].stack, Last(st))],
                                1)])
             ELSE Ok([vm EXCEPT
                        !.frames = Front(
                           [vm.frames EXCEPT ![caller].stack =
                               Append(vm.frames[caller].stack, Null)],
                           1)])

\* Globals where DECLAREGL rebinds a bound name and SETGL pops what it binds.
ExecGlobalPopping(vm, ins) ==
    IF ins.type # "declaregl"
       /\ SeqGet(vm.data, ins.value).s \notin DOMAIN vm.globals
    THEN Throw(vm, "VariableNotDeclared", ins.lineNumber)
    ELSE IF ins.type = "loadgl"
    THEN Ok(PushValue(vm, vm.globals[SeqGet(vm.data, ins.value).s]))
    ELSE IF Len(Stack(vm)) < 1 THEN Underflow(vm)
    ELSE Ok([WithStack(vm, Front(Stack(vm), 1)) EXCEPT !.globals =
               [k \in DOMAIN vm.globals \cup {SeqGet(vm.data, ins.value).s} |->
                   IF k = SeqGet(vm.data, ins.value).s THEN Last(Stack(vm))
                   ELSE vm.globals[k]]])

\* Globals where LOADGL of an unbound name binds it to null.
ExecGlobalDefining(vm, ins) ==
    LET c  == SeqGet(vm.data, ins.value)
        st == Stack(vm)
    IN  IF c = Undef THEN Throw(vm, "TypeError", 0)
        ELSE IF c.type # "string" THEN Throw(vm, "CompilerBug", 0)
        ELSE IF ins.type = "declaregl"
        THEN IF c.s \in DOMAIN vm.globals
             THEN Throw(vm, "VariableAlreadyDeclared", ins.lineNumber)
             ELSE IF Len(st) < 1 THEN Underflow(vm)
             ELSE Ok([WithStack(vm, Front(st, 1)) EXCEPT !.globals =
                        [k \in DOMAIN vm.globals \cup {c.s} |->
                            IF k = c.s THEN Last(st) ELSE vm.globals[k]]])
        ELSE IF ins.type = "loadgl"
        THEN IF c.s \in DOMAIN vm.globals
             THEN Ok(PushValue(vm, vm.globals[c.s]))
             ELSE Ok([PushValue(vm, Null) EXCEPT !.globals =
                        [k \in DOMAIN vm.globals \cup {c.s} |->
                            IF k = c.s THEN Null ELSE vm.globals[k]]])
        ELSE IF c.s \notin DOMAIN vm.globals
        THEN Throw(vm, "VariableNotDeclared", ins.lineNumber)
        ELSE Ok([vm EXCEPT !.globals[c.s] =
                    IF Len(st) = 0 THEN Undef ELSE Last(st)])

\* DECLAREGL, LOADGL, SETGL.  id = this.data[value].value; the compiler puts
\* a string constant there, and the model covers no other key.
ExecGlobal(vm, ins) ==
    LET c  == SeqGet(vm.data, ins.value)
        st == Stack(vm)
    IN  IF c = Undef THEN Throw(vm, "TypeError", 0)
        ELSE IF c.type # "string" THEN Throw(vm, "CompilerBug", 0)
        ELSE IF ins.type = "declaregl"
        THEN IF c.s \in DOMAIN vm.globals
             THEN Throw(vm, "VariableAlreadyDeclared", ins.lineNumber)
             ELSE IF Len(st) < 1 THEN Underflow(vm)
             ELSE Ok([WithStack(vm, Front(st, 1)) EXCEPT !.globals =
                        [k \in DOMAIN vm.globals \cup {c.s} |->
                            IF k = c.s THEN Last(st) ELSE vm.globals[k]]])
        ELSE IF c.s \notin DOMAIN vm.globals
        THEN Throw(vm, "VariableNotDeclared", ins.lineNumber)
        ELSE IF ins.type = "loadgl"
        THEN Ok(PushValue(vm, vm.globals[c.s]))
        ELSE Ok([vm EXCEPT !.globals[c.s] =
                    IF Len(st) = 0 THEN Undef ELSE Last(st)])

\* MAKE_TUPLE, MAKE_LIST
ExecMake(vm, ins) ==
    LET st == Stack(vm)
        n  == IF ins.value = NoVal THEN 0 ELSE ins.value
    IN  IF Len(st) < n THEN Underflow(vm)
        ELSE Ok(PushValue(
                  Alloc(WithStack(vm, Front(st, n)), ArrayCell(TailN(st, n))),
                  IF ins.type = "make_list" THEN ListV(NextRef(vm))
                                            ELSE TupleV(NextRef(vm))))

\* SUBSCRIPT: the bound check is container.value.length < key.value.
ExecSubscript(vm, ins) ==
    LET st == Stack(vm)
    IN  IF Len(st) < 2 THEN Underflow(vm)
        ELSE LET key       == st[Len(st)]
                 container == st[Len(st) - 1]
                 vm2       == WithStack(vm, Front(st, 2))
             IN  IF container = Undef THEN Throw(vm2, "TypeError", 0)
                 ELSE IF container.type \notin {"tuple", "list"}
                 THEN Throw(vm2, "InvalidType", ins.lineNumber)
                 ELSE IF key = Undef THEN Throw(vm2, "TypeError", 0)
                 ELSE IF key.type # "number"
                 THEN Throw(vm2, "InvalidType", ins.lineNumber)
                 ELSE IF Len(vm.heap[container.ref].elems) * key.d < key.n
                 THEN Throw(vm2, "IndexError", ins.lineNumber)
                 ELSE Ok(PushValue(vm2, ArrayGet(vm.heap[container.ref], key)))

\* A STORE_SUBSCRIPT that writes into a copy of the array.
ExecStoreSubscriptCopying(vm, ins) ==
    LET st == Stack(vm)
    IN  IF Len(st) < 2 THEN Underflow(vm)
        ELSE LET key  == st[Len(st)]
                 name == st[Len(st) - 1]
                 vm2  == WithStack(vm, Front(st, 2))
             IN  IF name = Undef THEN Throw(vm2, "TypeError", 0)
                 ELSE IF name.type # "list"
                 THEN Throw(vm2, "InvalidType", ins.lineNumber)
                 ELSE IF key = Undef THEN Throw(vm2, "TypeError", 0)
                 ELSE IF key.type # "number"
                 THEN Throw(vm2, "InvalidType", ins.lineNumber)
                 ELSE IF Len(st) < 3 THEN Underflow(vm2)
                 ELSE LET value == st[Len(st) - 2]
                      IN  Ok(Alloc(WithStack(vm, Append(Front(st, 3), value)),
                                   ArraySet(vm.heap[name.ref], key, value)))

\* STORE_SUBSCRIPT: name.value[key.value] = value, with no bound check.
ExecStoreSubscript(vm, ins) ==
    LET st == Stack(vm)
    IN  IF Len(st) < 2 THEN Underflow(vm)
        ELSE LET key  == st[Len(st)]
                 name == st[Len(st) - 1]
                 vm2  == WithStack(vm, Front(st, 2))
             IN  IF name = Undef THEN Throw(vm2, "TypeError", 0)
                 ELSE IF name.type # "list"
                 THEN Throw(vm2, "InvalidType", ins.lineNumber)
                 ELSE IF key = Undef THEN Throw(vm2, "TypeError", 0)
                 ELSE IF key.type # "number"
                 THEN Throw(vm2, "InvalidType", ins.lineNumber)
                 ELSE IF Len(st) < 3 THEN Underflow(vm2)
                 ELSE LET value == st[Len(st) - 2]
                      IN  Ok([WithStack(vm, Append(Front(st, 3), value))
                                 EXCEPT !.heap[name.ref] =
                                    ArraySet(vm.heap[name.ref], key, value)])

\* VM.execute(instruction)
Execute(vm, ins) ==
    LET st == Stack(vm)
    IN  CASE ins.type \in {"push", "data"} ->
               Ok(PushValue(vm, SeqGet(vm.data, ins.value)))
          [] ins.type = "pop" ->
               IF Len(st) < 1 THEN Underflow(vm)
               ELSE Ok(WithStack(vm, Front(st, 1)))
          [] ins.type \in BinaryOpcodes -> ExecBinary(vm, ins)
          [] ins.type \in UnaryOpcodes  -> ExecUnary(vm, ins)
          [] ins.type \in {"jump", "jumpf", "jumpt"} -> ExecJump(vm, ins)
          [] ins.type = "call" -> ExecCall(vm, ins)
          [] ins.type = "ret"  -> ExecRet(vm, ins)
          [] ins.type = "store" ->
               IF ins.value = NoVal THEN Ok(vm)
               ELSE Ok(WithStack(vm,
                       SeqSet(st, ins.value,
                              IF Len(st) = 0 THEN Undef ELSE Last(st))))
          [] ins.type = "load" ->
               Ok(PushValue(vm, SeqGet(st, ins.value)))
          [] ins.type \in {"declaregl", "loadgl", "setgl"} ->
               ExecGlobal(vm, ins)
          [] ins.type = "copy" ->
               IF Len(st) < 1 THEN Underflow(vm)
               ELSE Ok(PushValue(vm, Last(st)))
          [] ins.type \in {"make_tuple", "make_list"} -> ExecMake(vm, ins)
          [] ins.type = "subscript"       -> ExecSubscript(vm, ins)
          [] ins.type = "store_subscript" -> ExecStoreSubscript(vm, ins)
          [] ins.type = "nop" -> Ok(vm)
          [] OTHER -> Throw(vm, "CompilerBug", 0)

(***************************************************************************)
(* VM.run                                                                  *)
(***************************************************************************)
\* The default step budget of run().
Infinity == -1

\* One iteration of the loop of run(): fetch, execute, ip++, and the pop of
\* a frame whose ip has reached the end of its text.
Step(vm) ==
    LET PopAtEnd(vm2) ==
            IF Ip(vm2) >= Len(Text(vm2))
            THEN Ok([vm2 EXCEPT !.frames = Front(vm2.frames, 1)])
            ELSE Ok(vm2)
        Advance(r) ==
            IF r.err # "" THEN r ELSE PopAtEnd(WithIp(r.vm, Ip(r.vm) + 1))
    IN  IF Ip(vm) < 0 \/ Ip(vm) >= Len(Text(vm))
        THEN \* instruction is undefined and execute cannot destructure it
             Throw(vm, "TypeError", 0)
        ELSE Advance(Execute(vm, Text(vm)[Ip(vm) + 1]))

\* A loop condition that does not look at the pending syscall.
LoopGuardIgnoringTrap(vm, steps) ==
    /\ (steps = Infinity \/ steps > 0)
    /\ Len(vm.frames) > 0

LoopGuard(vm, steps) ==
    /\ (steps = Infinity \/ steps > 0)
    /\ Len(vm.frames) > 0
    /\ ~vm.syscall.set

\* A run() that executes one instruction whatever its budget.
RunOnce(vm, steps) ==
    IF ~LoopGuard(vm, steps) THEN Ok(vm) ELSE Step(vm)

RECURSIVE RunLoop(_, _)
RunLoop(vm, steps) ==
    LET Iterate(r) ==
            IF r.err # "" THEN r
            ELSE IF Len(r.vm.frames) = 0 THEN r
            ELSE RunLoop(r.vm, IF steps = Infinity THEN Infinity ELSE steps - 1)
    IN  IF ~LoopGuard(vm, steps) THEN Ok(vm) ELSE Iterate(Step(vm))

\* A status that is read off the frames alone.
StatusOfFrames(vm) == IF Len(vm.frames) = 0 THEN "halted" ELSE "running"

\* The status run() hands to serialize.
StatusOf(vm) ==
    IF vm.syscall.set THEN "syscall"
    ELSE IF Len(vm.frames) = 0 THEN "halted"
    ELSE "running"

(***************************************************************************)
(* VM.serialize and VM.deserialize                                         *)
(***************************************************************************)
MkTree(v, elems, fn) ==
    [type |-> v.type, n |-> v.n, d |-> v.d, s |-> v.s, b |-> v.b,
     elems |-> elems, fn |-> fn]

\* The JSON of a Value: an array is written out element by element at every
\* place that refers to it, a function with its name, args and body, and
\* undefined (a hole) as null.
RECURSIVE ToTree(_, _)
ToTree(heap, v) ==
    CASE v.type \in {"list", "tuple"} ->
           MkTree(v, [i \in 1..Len(heap[v.ref].elems) |->
                         ToTree(heap, heap[v.ref].elems[i])], NoFunction)
      [] v.type = "function" -> MkTree(v, <<>>, heap[v.ref].fn)
      [] OTHER -> MkTree(v, <<>>, NoFunction)

ToTrees(heap, vs) == [i \in 1..Len(vs) |-> ToTree(heap, vs[i])]

\* serialize(this): data, frames, globals and the private syscall field.
SerializeState(vm) ==
    [data    |-> ToTrees(vm.heap, vm.data),
     frames  |-> [i \in 1..Len(vm.frames) |->
                    [ip    |-> vm.frames[i].ip,
                     stack |-> ToTrees(vm.heap, vm.frames[i].stack),
                     text  |-> vm.frames[i].text]],
     globals |-> [k \in DOMAIN vm.globals |-> ToTree(vm.heap, vm.globals[k])],
     syscall |-> [vm.syscall EXCEPT !.args = ToTrees(vm.heap, vm.syscall.args)]]

\* VM.serialize(status, syscall)
Serialize(vm, status) ==
    [state   |-> SerializeState(vm),
     status  |-> status,
     syscall |-> [vm.syscall EXCEPT !.args = ToTrees(vm.heap, vm.syscall.args)]]

\* Parsing a JSON value builds a new object for every array and function.
RECURSIVE FromTree(_, _)
RECURSIVE FromTrees(_, _)
FromTree(heap, t) ==
    CASE t.type \in {"list", "tuple"} ->
           LET r  == FromTrees(heap, t.elems)
               h2 == Append(r.heap, ArrayCell(r.vs))
           IN  [heap |-> h2,
                v    |-> MkValue(t.type, t.n, t.d, t.s, t.b, Len(h2))]
      [] t.type = "function" ->
           LET h2 == Append(heap,
                            FunctionCell(t.fn.name, t.fn.args, t.fn.body))
           IN  [heap |-> h2,
                v    |-> MkValue(t.type, t.n, t.d, t.s, t.b, Len(h2))]
      [] OTHER -> [heap |-> heap,
                   v    |-> MkValue(t.type, t.n, t.d, t.s, t.b, 0)]

FromTrees(heap, ts) ==
    IF Len(ts) = 0 THEN [heap |-> heap, vs |-> <<>>]
    ELSE LET r    == FromTrees(heap, Front(ts, 1))
             last == FromTree(r.heap, Last(ts))
         IN  [heap |-> last.heap, vs |-> Append(r.vs, last.v)]

RECURSIVE SetToSeq(_)
SetToSeq(S) ==
    IF S = {} THEN <<>>
    ELSE LET x == CHOOSE x \in S : TRUE
         IN  <<x>> \o SetToSeq(S \ {x})

RECURSIVE FromFrames(_, _)
FromFrames(heap, fs) ==
    IF Len(fs) = 0 THEN [heap |-> heap, frames |-> <<>>]
    ELSE LET r  == FromFrames(heap, Front(fs, 1))
             f  == Last(fs)
             st == FromTrees(r.heap, f.stack)
         IN  [heap   |-> st.heap,
              frames |-> Append(r.frames, CallFrame(f.ip, st.vs, f.text))]

\* deserialize(VM, atob(image.state))
DeserializeState(state) ==
    LET d     == FromTrees(<<>>, state.data)
        fr    == FromFrames(d.heap, state.frames)
        names == SetToSeq(DOMAIN state.globals)
        g     == FromTrees(fr.heap,
                           [i \in 1..Len(names) |-> state.globals[names[i]]])
        sc    == FromTrees(g.heap, state.syscall.args)
    IN  [data    |-> d.vs,
         frames  |-> fr.frames,
         globals |-> [k \in DOMAIN state.globals |->
                        g.vs[CHOOSE i \in 1..Len(names) : names[i] = k]],
         syscall |-> [state.syscall EXCEPT !.args = sc.vs],
         heap    |-> sc.heap]

NoArg == [type |-> "undefined", n |-> 0, d |-> 1, s |-> "", b |-> FALSE,
          elems |-> <<>>, fn |-> NoFunction]

\* A deserialize that pushes its argument whatever the image's status.
DeserializePushingAlways(image, arg) ==
    LET Push(vm, a) ==
            Ok([PushValue([vm EXCEPT !.heap = a.heap], a.v)
                  EXCEPT !.syscall = NoSyscall])
        Feed(vm) ==
            IF Len(vm.frames) = 0 THEN Ok([vm EXCEPT !.syscall = NoSyscall])
            ELSE Push(vm, FromTree(vm.heap, arg))
    IN  Feed(DeserializeState(image.state))

\* VM.deserialize(image, arg); arg is a plain (JSON) value or undefined.
Deserialize(image, arg) ==
    LET Push(vm, a) ==
            Ok([PushValue([vm EXCEPT !.heap = a.heap], a.v)
                  EXCEPT !.syscall = NoSyscall])
        Feed(vm) ==
            IF image.status = "syscall" /\ arg # NoArg
            THEN IF Len(vm.frames) = 0
                 THEN Throw(vm, "TypeError", 0)
                 ELSE Push(vm, FromTree(vm.heap, arg))
            ELSE Ok([vm EXCEPT !.syscall = NoSyscall])
    IN  Feed(DeserializeState(image.state))

\* A create() that registers the natives only.
CreateWithoutSyscalls(program) ==
    LET d == FromTrees(<<>>, program.data)
    IN  [data    |-> d.vs,
         frames  |-> <<CallFrame(0, <<>>, program.text)>>,
         globals |-> [k \in NativeNames |-> NativeV(k)],
         syscall |-> NoSyscall,
         heap    |-> d.heap]

\* VM.create(program)
Create(program) ==
    LET d == FromTrees(<<>>, program.data)
    IN  [data    |-> d.vs,
         frames  |-> <<CallFrame(0, <<>>, program.text)>>,
         globals |-> [k \in NativeNames \cup SyscallNames |->
                        IF k \in SyscallNames THEN SyscallV(k) ELSE NativeV(k)],
         syscall |-> NoSyscall,
         heap    |-> d.heap]

(***************************************************************************)
(* The bytecode Chunk (src/unnamed/part_001)                               *)
(*                                                                         *)
(* A chunk is [count, capacity, view, lineView, constants]: view and       *)
(* lineView are the Uint8Arrays, sequences of capacity bytes, constants    *)
(* is the array of its ValueArray.                                         *)
(***************************************************************************)
\* The value an element of a Uint8Array takes when a number is stored.
ToUint8(n) == n % 256

\* new Uint8Array(new ArrayBuffer(n)): n zero bytes.
Uint8Array(n) == [i \in 1..n |-> 0]

\* view[i] = n: an index outside the array is ignored.
Uint8Set(view, i, n) ==
    IF i >= 0 /\ i < Len(view) THEN [view EXCEPT ![i + 1] = ToUint8(n)]
    ELSE view

\* newView.set(view): the bytes of view at the start of newView.
Uint8Copy(newView, view) ==
    [i \in 1..Len(newView) |-> IF i <= Len(view) THEN view[i] ELSE newView[i]]

\* new Chunk(capacity)
Chunk(capacity) ==
    [count |-> 0, capacity |-> capacity, view |-> Uint8Array(capacity),
     lineView |-> Uint8Array(capacity), constants |-> <<>>]

\* Chunk.write(byte, line)
write(c, byte, line) ==
    LET grown == IF c.count >= c.capacity
                 THEN [c EXCEPT
                         !.capacity = c.capacity * 2,
                         !.view = Uint8Copy(Uint8Array(c.capacity * 2), c.view),
                         !.lineView = Uint8Copy(Uint8Array(c.capacity * 2),
                                                c.lineView)]
                 ELSE c
    IN  [grown EXCEPT !.view = Uint8Set(grown.view, c.count, byte),
                      !.lineView = Uint8Set(grown.lineView, c.count, line),
                      !.count = c.count + 1]

\* Chunk.size, Chunk.get(index), Chunk.getLine(index)
size(c) == c.count
get(c, index) == SeqGet(c.view, index)
getLine(c, index) == SeqGet(c.lineView, index)

\* Chunk.addConstant(value): ValueArray.write, then ValueArray.size - 1.
addConstant(c, value) ==
    [chunk |-> [c EXCEPT !.constants = Append(c.constants, value)],
     ret   |-> Len(c.constants),
     err   |-> ""]

\* The index above which makeConstant throws.
MaxConstantIndex == 255

\* Chunk.makeConstant(value)
makeConstant(c, value) ==
    LET added == addConstant(c, value)
    IN  IF added.ret > MaxConstantIndex
        THEN [added EXCEPT !.err = "Too many constants in one chunk."]
        ELSE added

\* Chunk.getConstant(index)
getConstant(c, index) == SeqGet(c.constants, index)

(***************************************************************************)
(* The compiler (src/src/compiler.ts)                                      *)
(*                                                                         *)
(* A compiler is [text, data, locals, depth, breaks, continues, err].  An  *)
(* Instruction the source keeps a reference to, to patch it later, is      *)
(* kept here as its position in text.  A thrown error is err # "", which   *)
(* every later step passes on unchanged.                                   *)
(***************************************************************************)
TNum(n) == MkTree(Num(n), <<>>, NoFunction)
TStr(x) == MkTree(Str(x), <<>>, NoFunction)

Local(name, depth) == [name |-> name, depth |-> depth]

\* new Compiler(ast, locals, data)
Compiler(locals, data) ==
    [text |-> <<>>, data |-> data, locals |-> locals, depth |-> 0,
     breaks |-> <<>>, continues |-> <<>>, err |-> ""]

Fail(c, kind) == IF c.err # "" THEN c ELSE [c EXCEPT !.err = kind]

\* emitText(opcode, lineNumber, value), and this.program.text.push(...)
emitText(c, opcode, lineNumber, value) ==
    IF c.err # "" THEN c
    ELSE [c EXCEPT !.text = Append(@, Instruction(opcode, lineNumber, value))]

\* this.program.data.push(constant)
pushData(c, constant) ==
    IF c.err # "" THEN c ELSE [c EXCEPT !.data = Append(@, constant)]

\* instruction.value = value, for the instruction pushed at position pos
patch(c, pos, value) ==
    IF c.err # "" THEN c ELSE [c EXCEPT !.text[pos].value = value]

RECURSIVE patchAll(_, _, _)
patchAll(c, positions, value) ==
    IF Len(positions) = 0 THEN c
    ELSE patchAll(patch(c, positions[1], value), Tail(positions), value)

\* The last index i with locals[i].name = name, 0-based; NoVal when none.
LastLocal(locals, name) ==
    LET hits == {i \in 1..Len(locals) : locals[i].name = name}
    IN  IF hits = {} THEN NoVal
        ELSE (CHOOSE i \in hits : \A j \in hits : j <= i) - 1

\* locals.findIndex(local => local.name === name): the first such index.
findIndex(locals, name) ==
    LET hits == {i \in 1..Len(locals) : locals[i].name = name}
    IN  IF hits = {} THEN NoVal
        ELSE (CHOOSE i \in hits : \A j \in hits : i <= j) - 1

\* A reference that counts the slots of the locals from one.
loadVariableOneBased(c, name, line) ==
    IF c.err # "" THEN c
    ELSE IF LastLocal(c.locals, name) # NoVal
    THEN emitText(c, "load", line, LastLocal(c.locals, name) + 1)
    ELSE LET c1 == pushData(c, TStr(name))
         IN  emitText(c1, "loadgl", line, Len(c1.data) - 1)

loadVariable(c, name, line) ==
    IF c.err # "" THEN c
    ELSE IF LastLocal(c.locals, name) # NoVal
    THEN emitText(c, "load", line, LastLocal(c.locals, name))
    ELSE LET c1 == pushData(c, TStr(name))
         IN  emitText(c1, "loadgl", line, Len(c1.data) - 1)

declareVariable(c, name, line) ==
    IF c.err # "" THEN c
    ELSE IF c.depth = 0
    THEN LET c1 == pushData(c, TStr(name))
         IN  emitText(c1, "declaregl", line, Len(c1.data) - 1)
    ELSE IF findIndex(c.locals, name) = NoVal
    THEN [c EXCEPT !.locals = Append(@, Local(name, c.depth))]
    ELSE Fail(c, "VariableAlreadyDeclaredInScope")

assignVariable(c, name, line) ==
    IF c.err # "" THEN c
    ELSE IF c.depth = 0 \/ findIndex(c.locals, name) = NoVal
    THEN LET c1 == pushData(c, TStr(name))
         IN  emitText(c1, "setgl", line, Len(c1.data) - 1)
    ELSE emitText(c, "store", line, findIndex(c.locals, name))

BinaryOpcode(op) ==
    CASE op = "PLUS"  -> "add"
      [] op = "MINUS" -> "sub"
      [] op = "MUL"   -> "mul"
      [] op = "DIV"   -> "div"
      [] op = "EQ"    -> "eq"
      [] op = "NEQ"   -> "neq"
      [] op = "LT"    -> "lt"
      [] op = "LTE"   -> "lte"
      [] op = "GT"    -> "gt"
      [] op = "GTE"   -> "gte"
      [] op = "AND"   -> "and"
      [] op = "OR"    -> "or"
      [] op = "MOD"   -> "MOD"
      [] OTHER        -> ""

UnaryOpcode(op) ==
    CASE op = "MINUS" -> "neg"
      [] op = "NOT"   -> "not"
      [] op = "INC"   -> "inc"
      [] op = "DEC"   -> "dec"
      [] OTHER        -> ""

AssignOpcode(op) ==
    CASE op = "PLUS_ASSIGN"  -> "add"
      [] op = "MINUS_ASSIGN" -> "sub"
      [] op = "MUL_ASSIGN"   -> "mul"
      [] op = "DIV_ASSIGN"   -> "div"
      [] op = "MOD_ASSIGN"   -> "MOD"
      [] OTHER               -> ""

\* The constant of a literal token; parseFloat is taken on the numerals the
\* programs use, which denote integers.
LiteralConstant(node) ==
    CASE node.type = "NUMBER" -> MkTree(Num(node.num), <<>>, NoFunction)
      [] node.type = "STRING" -> TStr(node.str)
      [] node.type = "TRUE"   -> MkTree(Bool(TRUE), <<>>, NoFunction)
      [] node.type = "FALSE"  -> MkTree(Bool(FALSE), <<>>, NoFunction)
      [] node.type = "NULL"   -> MkTree(Null, <<>>, NoFunction)

RECURSIVE codegen(_, _)
RECURSIVE codegenAll(_, _)

codegenAll(c, nodes) ==
    IF Len(nodes) = 0 THEN c
    ELSE codegenAll(codegen(c, nodes[1]), Tail(nodes))

literal(c, node) ==
    IF node.type \notin {"NUMBER", "STRING", "TRUE", "FALSE", "NULL"}
    THEN Fail(c, "CompilerBug")
    ELSE LET c1 == pushData(c, LiteralConstant(node))
         IN  emitText(c1, "data", node.lineNumber, Len(c1.data) - 1)

call(c, node) ==
    emitText(codegenAll(codegen(c, node.func), node.args),
             "call", node.lineNumber, Len(node.args))

return(c, node) ==
    IF node.hasValue
    THEN emitText(codegen(c, node.value), "ret", node.lineNumber, 1)
    ELSE emitText(c, "ret", node.lineNumber, 0)

expressionStatement(c, node) ==
    emitText(codegen(c, node.expression), "pop", node.lineNumber, NoVal)

\* A ++ / -- whose postfix form does not pop the new value.
unaryOperationKeepingNew(c, node) ==
    LET opcode == UnaryOpcode(node.op)
    IN  IF opcode = "" THEN Fail(c, "CompilerBug")
        ELSE IF opcode \in {"inc", "dec"}
        THEN IF node.rand.kind # "Identifier" THEN Fail(c, "SyntaxError")
             ELSE LET c1 == loadVariable(c, node.rand.name, node.lineNumber)
                      c2 == IF node.prefix THEN c1
                            ELSE emitText(c1, "copy", node.lineNumber, NoVal)
                      c3 == emitText(c2, opcode, node.lineNumber, NoVal)
                  IN  assignVariable(c3, node.rand.name, node.lineNumber)
        ELSE emitText(codegen(c, node.rand), opcode, node.lineNumber, NoVal)

unaryOperation(c, node) ==
    LET opcode == UnaryOpcode(node.op)
    IN  IF opcode = "" THEN Fail(c, "CompilerBug")
        ELSE IF opcode \in {"inc", "dec"}
        THEN IF node.rand.kind # "Identifier" THEN Fail(c, "SyntaxError")
             ELSE LET c1 == loadVariable(c, node.rand.name, node.lineNumber)
                      c2 == IF node.prefix THEN c1
                            ELSE emitText(c1, "copy", node.lineNumber, NoVal)
                      c3 == emitText(c2, opcode, node.lineNumber, NoVal)
                      c4 == assignVariable(c3, node.rand.name, node.lineNumber)
                  IN  IF node.prefix THEN c4
                      ELSE emitText(c4, "pop", node.lineNumber, NoVal)
        ELSE emitText(codegen(c, node.rand), opcode, node.lineNumber, NoVal)

binaryOperation(c, node) ==
    LET c2 == codegen(codegen(c, node.lhs), node.rhs)
    IN  IF BinaryOpcode(node.op) = "" THEN Fail(c2, "CompilerBug")
        ELSE emitText(c2, BinaryOpcode(node.op), node.lineNumber, NoVal)

subscript(c, node) ==
    emitText(codegen(codegen(c, node.name), node.key),
             "subscript", node.lineNumber, NoVal)

variableAssignment(c, node) ==
    LET c1 == IF node.op # "ASSIGN" THEN codegen(c, node.name) ELSE c
        c2 == codegen(c1, node.value)
        c3 == IF node.op = "ASSIGN" THEN c2
              ELSE IF AssignOpcode(node.op) = "" THEN Fail(c2, "CompilerBug")
              ELSE emitText(c2, AssignOpcode(node.op), node.lineNumber,
                            IF node.op = "PLUS_ASSIGN" THEN 1 ELSE NoVal)
    IN  IF node.name.kind = "Identifier"
        THEN assignVariable(c3, node.name.name, node.lineNumber)
        ELSE IF node.name.kind = "Subscript"
        THEN emitText(codegen(codegen(c3, node.name.name), node.name.key),
                      "store_subscript", node.name.lineNumber, NoVal)
        ELSE Fail(c3, "SyntaxError")

variableDeclaration(c, node) ==
    declareVariable(codegen(c, node.value), node.name, node.lineNumber)

\* The loop of block() that pops the locals deeper than the current depth.
RECURSIVE popLocals(_, _)
popLocals(c, line) ==
    IF c.err # "" \/ Len(c.locals) = 0 THEN c
    ELSE IF Last(c.locals).depth <= c.depth THEN c
    ELSE popLocals([emitText(c, "pop", line, NoVal)
                       EXCEPT !.locals = Front(c.locals, 1)], line)

block(c, node) ==
    IF c.err # "" THEN c
    ELSE LET c1 == codegenAll([c EXCEPT !.depth = @ + 1], node.nodes)
         IN  IF c1.err # "" THEN c1
             ELSE popLocals([c1 EXCEPT !.depth = @ - 1], node.lineNumber)

\* An if() that leaves the JUMPF of an if/else on the JUMP after the then.
ifWithoutIncrement(c, node) ==
    LET c1    == emitText(codegen(c, node.condition), "jumpf",
                          node.lineNumber, NoVal)
        jumpf == Len(c1.text)
        c2    == codegen(c1, node.then)
        c3    == patch(c2, jumpf, Len(c2.text))
    IN  IF ~node.hasElse THEN c3
        ELSE LET c4   == emitText(c3, "jump", node.lineNumber, NoVal)
                 jump == Len(c4.text)
                 c6   == codegen(c4, node.else)
             IN  patch(c6, jump, Len(c6.text))

if(c, node) ==
    LET c1    == emitText(codegen(c, node.condition), "jumpf",
                          node.lineNumber, NoVal)
        jumpf == Len(c1.text)
        c2    == codegen(c1, node.then)
        c3    == patch(c2, jumpf, Len(c2.text))
    IN  IF ~node.hasElse THEN c3
        ELSE LET c4   == emitText(c3, "jump", node.lineNumber, NoVal)
                 jump == Len(c4.text)
                 c5   == patch(c4, jumpf, Len(c3.text) + 1)
                 c6   == codegen(c5, node.else)
             IN  patch(c6, jump, Len(c6.text))

\* An end of loop that patches the continues and forgets the breaks.
patchLoopContinuesOnly(c, breakTarget, continueTarget) ==
    IF c.err # "" THEN c
    ELSE LET c2 == patchAll(c, Last(c.continues), continueTarget)
         IN  [c2 EXCEPT !.breaks = Front(@, 1), !.continues = Front(@, 1)]

\* The end of while() and for(): the two lists are popped and patched.
patchLoop(c, breakTarget, continueTarget) ==
    IF c.err # "" THEN c
    ELSE LET c1 == patchAll(c, Last(c.breaks), breakTarget)
             c2 == patchAll(c1, Last(c.continues), continueTarget)
         IN  [c2 EXCEPT !.breaks = Front(@, 1), !.continues = Front(@, 1)]

pushLoop(c) ==
    IF c.err # "" THEN c
    ELSE [c EXCEPT !.breaks = Append(@, <<>>), !.continues = Append(@, <<>>)]

while(c, node) ==
    LET c0    == pushLoop(c)
        start == Len(c0.text)
        c1    == emitText(codegen(c0, node.condition), "jumpf",
                          node.lineNumber, NoVal)
        jumpf == Len(c1.text)
        c2    == codegen(c1, node.body)
        c3    == emitText(c2, "jump", node.lineNumber, start)
        c4    == patch(c3, jumpf, Len(c3.text))
    IN  patchLoop(c4, Len(c4.text), start)

for(c, node) ==
    LET c0    == codegen(pushLoop(c), node.init)
        start == Len(c0.text)
        c1    == emitText(codegen(c0, node.condition),
                          IF node.condition.kind = "EmptyStatement"
                          THEN "nop" ELSE "jumpf",
                          node.lineNumber, NoVal)
        jumpf == Len(c1.text)
        c2    == codegen(c1, node.body)
        updateStart == Len(c2.text)
        c3    == codegen(c2, node.update)
        c4    == emitText(c3, "jump", node.lineNumber, start)
        c5    == patch(c4, jumpf, Len(c4.text))
    IN  patchLoop(c5, Len(c5.text), updateStart)

\* A break that is recorded among the continues of the loop.
breakAsContinue(c, node) ==
    IF c.err # "" THEN c
    ELSE IF Len(c.breaks) = 0 THEN Fail(c, "SyntaxError")
    ELSE LET c1 == emitText(c, "jump", node.lineNumber, NoVal)
         IN  [c1 EXCEPT !.continues[Len(c.continues)] =
                           Append(@, Len(c1.text))]

break(c, node) ==
    IF c.err # "" THEN c
    ELSE IF Len(c.breaks) = 0 THEN Fail(c, "SyntaxError")
    ELSE LET c1 == emitText(c, "jump", node.lineNumber, NoVal)
         IN  [c1 EXCEPT !.breaks[Len(c.breaks)] = Append(@, Len(c1.text))]

continue(c, node) ==
    IF c.err # "" THEN c
    ELSE IF Len(c.continues) = 0 THEN Fail(c, "SyntaxError")
    ELSE LET c1 == emitText(c, "jump", node.lineNumber, NoVal)
         IN  [c1 EXCEPT !.continues[Len(c.continues)] = Append(@, Len(c1.text))]

FunctionTree(name, args, body) ==
    MkTree(FuncV(0), <<>>, [name |-> name, args |-> args, body |-> body])

\* A function() whose body sees the locals of the enclosing scope.
functionCapturing(c, node) ==
    IF c.err # "" THEN c
    ELSE LET c1    == pushData(c, FunctionTree(node.name, node.params, <<>>))
             index == Len(c1.data) - 1
             locals == c.locals \o <<Local(node.name, 0)>>
                       \o [i \in 1..Len(node.params) |->
                             Local(node.params[i], 1)]
             inner == codegenAll(Compiler(locals, c1.data), <<node.body>>)
         IN  IF inner.err # "" THEN Fail(c1, inner.err)
             ELSE LET body == Append(inner.text,
                                     Instruction("ret", node.lineNumber, 0))
                      c2   == [c1 EXCEPT
                                 !.data = [inner.data EXCEPT ![index + 1] =
                                    FunctionTree(node.name, node.params, body)]]
                      c3   == emitText(c2, "data", node.lineNumber, index)
                  IN  declareVariable(c3, node.name, node.lineNumber)

\* A function() whose body is compiled inside the loops of its declaration.
functionInsideLoops(c, node) ==
    IF c.err # "" THEN c
    ELSE LET c1    == pushData(c, FunctionTree(node.name, node.params, <<>>))
             index == Len(c1.data) - 1
             locals == <<Local(node.name, 0)>>
                       \o [i \in 1..Len(node.params) |->
                             Local(node.params[i], 1)]
             inner == codegenAll([Compiler(locals, c1.data) EXCEPT
                                     !.breaks = c.breaks,
                                     !.continues = c.continues],
                                 <<node.body>>)
         IN  IF inner.err # "" THEN Fail(c1, inner.err)
             ELSE LET body == Append(inner.text,
                                     Instruction("ret", node.lineNumber, 0))
                      c2   == [c1 EXCEPT
                                 !.data = [inner.data EXCEPT ![index + 1] =
                                    FunctionTree(node.name, node.params, body)]]
                      c3   == emitText(c2, "data", node.lineNumber, index)
                  IN  declareVariable(c3, node.name, node.lineNumber)

\* A function() that stores the body as its compiler left it.
functionWithoutRet(c, node) ==
    IF c.err # "" THEN c
    ELSE LET c1    == pushData(c, FunctionTree(node.name, node.params, <<>>))
             index == Len(c1.data) - 1
             locals == <<Local(node.name, 0)>>
                       \o [i \in 1..Len(node.params) |->
                             Local(node.params[i], 1)]
             inner == codegenAll(Compiler(locals, c1.data), <<node.body>>)
         IN  IF inner.err # "" THEN Fail(c1, inner.err)
             ELSE LET c2   == [c1 EXCEPT
                                 !.data = [inner.data EXCEPT ![index + 1] =
                                    FunctionTree(node.name, node.params,
                                                 inner.text)]]
                      c3   == emitText(c2, "data", node.lineNumber, index)
                  IN  declareVariable(c3, node.name, node.lineNumber)

function(c, node) ==
    IF c.err # "" THEN c
    ELSE LET c1    == pushData(c, FunctionTree(node.name, node.params, <<>>))
             index == Len(c1.data) - 1
             locals == <<Local(node.name, 0)>>
                       \o [i \in 1..Len(node.params) |->
                             Local(node.params[i], 1)]
             inner == codegenAll(Compiler(locals, c1.data), <<node.body>>)
         IN  IF inner.err # "" THEN Fail(c1, inner.err)
             ELSE LET body == Append(inner.text,
                                     Instruction("ret", node.lineNumber, 0))
                      c2   == [c1 EXCEPT
                                 !.data = [inner.data EXCEPT ![index + 1] =
                                    FunctionTree(node.name, node.params, body)]]
                      c3   == emitText(c2, "data", node.lineNumber, index)
                  IN  declareVariable(c3, node.name, node.lineNumber)

codegen(c, node) ==
    IF c.err # "" THEN c
    ELSE CASE node.kind = "Literal"             -> literal(c, node)
           [] node.kind = "Call"                -> call(c, node)
           [] node.kind = "Return"              -> return(c, node)
           [] node.kind = "Identifier"          ->
                loadVariable(c, node.name, node.lineNumber)
           [] node.kind = "BinaryOperation"     -> binaryOperation(c, node)
           [] node.kind = "UnaryOperation"      -> unaryOperation(c, node)
           [] node.kind = "VariableAssignment"  -> variableAssignment(c, node)
           [] node.kind = "VariableDeclaration" -> variableDeclaration(c, node)
           [] node.kind = "Block"               -> block(c, node)
           [] node.kind = "If"                  -> if(c, node)
           [] node.kind = "While"               -> while(c, node)
           [] node.kind = "For"                 -> for(c, node)
           [] node.kind = "FunctionDeclaration" -> function(c, node)
           [] node.kind = "ExpressionStatement" -> expressionStatement(c, node)
           [] node.kind = "EmptyStatement"      ->
                emitText(c, "nop", node.lineNumber, NoVal)
           [] node.kind = "BreakStatement"      -> break(c, node)
           [] node.kind = "ContinueStatement"   -> continue(c, node)
           [] node.kind = "Tuple"               ->
                emitText(codegenAll(c, node.elements), "make_tuple",
                         node.lineNumber, Len(node.elements))
           [] node.kind = "List"                ->
                emitText(codegenAll(c, node.elements), "make_list",
                         node.lineNumber, Len(node.elements))
           [] node.kind = "Subscript"           -> subscript(c, node)
           [] OTHER -> Fail(c, "CompilerBug")

\* new Compiler(ast).run(): the Program, or the error that was thrown.
Compile(ast) ==
    LET c == codegenAll(Compiler(<<>>, <<>>), ast)
    IN  [text |-> c.text, data |-> c.data, err |-> c.err]

(***************************************************************************)
(* Programs                                                                *)
(***************************************************************************)
\* AST nodes, as the parser hands them to the compiler.
Lit(l, n)  == [kind |-> "Literal", lineNumber |-> l, type |-> "NUMBER",
               num |-> n, str |-> ""]
LitS(l, x) == [kind |-> "Literal", lineNumber |-> l, type |-> "STRING",
               num |-> 0, str |-> x]
Id(l, name) == [kind |-> "Identifier", lineNumber |-> l, name |-> name]
Bin(l, op, lhs, rhs) ==
    [kind |-> "BinaryOperation", lineNumber |-> l, op |-> op,
     lhs |-> lhs, rhs |-> rhs]
Let(l, name, value) ==
    [kind |-> "VariableDeclaration", lineNumber |-> l, name |-> name,
     value |-> value]
Assign(l, name, op, value) ==
    [kind |-> "VariableAssignment", lineNumber |-> l, name |-> name,
     op |-> op, value |-> value]
Expr(l, e) == [kind |-> "ExpressionStatement", lineNumber |-> l,
               expression |-> e]
CallOf(l, func, args) ==
    [kind |-> "Call", lineNumber |-> l, func |-> func, args |-> args]
BlockOf(l, nodes) == [kind |-> "Block", lineNumber |-> l, nodes |-> nodes]
IfThen(l, cond, then) ==
    [kind |-> "If", lineNumber |-> l, condition |-> cond, then |-> then,
     hasElse |-> FALSE]
IfElse(l, cond, then, else) ==
    [kind |-> "If", lineNumber |-> l, condition |-> cond, then |-> then,
     hasElse |-> TRUE, else |-> else]
WhileOf(l, cond, body) ==
    [kind |-> "While", lineNumber |-> l, condition |-> cond, body |-> body]
Func(l, name, params, body) ==
    [kind |-> "FunctionDeclaration", lineNumber |-> l, name |-> name,
     params |-> params, body |-> body]
Ret(l, value) == [kind |-> "Return", lineNumber |-> l, hasValue |-> TRUE,
                  value |-> value]
ListOf(l, elements) == [kind |-> "List", lineNumber |-> l,
                        elements |-> elements]
TupleOf(l, elements) == [kind |-> "Tuple", lineNumber |-> l,
                         elements |-> elements]
Sub(l, name, key) == [kind |-> "Subscript", lineNumber |-> l, name |-> name,
                      key |-> key]

Un(l, op, rand) ==
    [kind |-> "UnaryOperation", lineNumber |-> l, op |-> op, rand |-> rand,
     prefix |-> TRUE]
RetNone(l) == [kind |-> "Return", lineNumber |-> l, hasValue |-> FALSE]
ForOf(l, init, cond, update, body) ==
    [kind |-> "For", lineNumber |-> l, init |-> init, condition |-> cond,
     update |-> update, body |-> body]
Empty(l)         == [kind |-> "EmptyStatement", lineNumber |-> l]
BreakStmt(l)     == [kind |-> "BreakStatement", lineNumber |-> l]
ContinueStmt(l)  == [kind |-> "ContinueStatement", lineNumber |-> l]
\* syscall(name, args...);
Report(l, name, args) ==
    Expr(l, CallOf(l, Id(l, "syscall"), <<LitS(l, name)>> \o args))

\* let a = 1 + 2; syscall("result", a);
SrcResult ==
    <<Let(1, "a", Bin(1, "PLUS", Lit(1, 1), Lit(1, 2))),
      Expr(2, CallOf(2, Id(2, "syscall"), <<LitS(2, "result"), Id(2, "a")>>))>>

\* let a = input(); let result = 2 + number(a); syscall("dummy", result);
SrcInput ==
    <<Let(1, "a", CallOf(1, Id(1, "input"), <<>>)),
      Let(2, "result", Bin(2, "PLUS", Lit(2, 2),
                           CallOf(2, Id(2, "number"), <<Id(2, "a")>>))),
      Expr(3, CallOf(3, Id(3, "syscall"),
                     <<LitS(3, "dummy"), Id(3, "result")>>))>>

\* let a = [1]; let b = a; input("go"); b[0] = 9; syscall("r", a, len(b));
SrcAlias ==
    <<Let(1, "a", ListOf(1, <<Lit(1, 1)>>)),
      Let(2, "b", Id(2, "a")),
      Expr(3, CallOf(3, Id(3, "input"), <<LitS(3, "go")>>)),
      Expr(4, Assign(4, Sub(4, Id(4, "b"), Lit(4, 0)), "ASSIGN", Lit(4, 9))),
      Expr(5, CallOf(5, Id(5, "syscall"),
                     <<LitS(5, "r"), Id(5, "a"),
                       CallOf(5, Id(5, "len"), <<Id(5, "b")>>)>>))>>

\* func fact(n) { if (n <= 1) { return 1; } return n * fact(n - 1); }
\* syscall("r", fact(3));
SrcFact ==
    <<Func(1, "fact", <<"n">>,
           BlockOf(1, <<IfThen(2, Bin(2, "LTE", Id(2, "n"), Lit(2, 1)),
                               BlockOf(2, <<Ret(2, Lit(2, 1))>>)),
                        Ret(3, Bin(3, "MUL", Id(3, "n"),
                                   CallOf(3, Id(3, "fact"),
                                          <<Bin(3, "MINUS", Id(3, "n"),
                                                Lit(3, 1))>>)))>>)),
      Expr(4, CallOf(4, Id(4, "syscall"),
                     <<LitS(4, "r"),
                       CallOf(4, Id(4, "fact"), <<Lit(4, 3)>>)>>))>>

\* func ask(x, y) { let v = input(x); return v + y; }
\* let i = 0; while (i < 2) { syscall("got", ask("q", i)); i = i + 1; }
SrcAsk ==
    <<Func(1, "ask", <<"x", "y">>,
           BlockOf(1, <<Let(2, "v", CallOf(2, Id(2, "input"), <<Id(2, "x")>>)),
                        Ret(3, Bin(3, "PLUS", Id(3, "v"), Id(3, "y")))>>)),
      Let(4, "i", Lit(4, 0)),
      WhileOf(5, Bin(5, "LT", Id(5, "i"), Lit(5, 2)),
              BlockOf(5, <<Expr(6, CallOf(6, Id(6, "syscall"),
                                 <<LitS(6, "got"),
                                   CallOf(6, Id(6, "ask"),
                                          <<LitS(6, "q"), Id(6, "i")>>)>>)),
                           Expr(7, Assign(7, Id(7, "i"), "ASSIGN",
                                          Bin(7, "PLUS", Id(7, "i"),
                                              Lit(7, 1))))>>))>>

\* func id(x) { return x; }  id();
SrcArity ==
    <<Func(1, "id", <<"x">>, BlockOf(1, <<Ret(2, Id(2, "x"))>>)),
      Expr(3, CallOf(3, Id(3, "id"), <<>>)),
      Expr(4, CallOf(4, Id(4, "syscall"), <<LitS(4, "after")>>))>>

\* syscall(1, 2); syscall("late");
SrcBadName ==
    <<Expr(1, CallOf(1, Id(1, "syscall"), <<Lit(1, 1), Lit(1, 2)>>)),
      Expr(2, CallOf(2, Id(2, "syscall"), <<LitS(2, "late")>>))>>

\* let z = 0; let q = 4 / z; let t = (1, 2); syscall("r", t[5]);
SrcDivide ==
    <<Let(1, "z", Lit(1, 0)),
      Let(2, "q", Bin(2, "DIV", Lit(2, 4), Id(2, "z"))),
      Let(3, "t", TupleOf(3, <<Lit(3, 1), Lit(3, 2)>>)),
      Expr(4, CallOf(4, Id(4, "syscall"),
                     <<LitS(4, "r"), Sub(4, Id(4, "t"), Lit(4, 5))>>))>>

\* syscall("pair", 1, "x", 2);
SrcPair ==
    <<Expr(1, CallOf(1, Id(1, "syscall"),
                     <<LitS(1, "pair"), Lit(1, 1), LitS(1, "x"), Lit(1, 2)>>))>>

Sources ==
    {SrcResult, SrcInput, SrcAlias, SrcFact, SrcAsk, SrcArity, SrcBadName,
     SrcDivide, SrcPair}

Programs == {Compile(src) : src \in Sources}

(***************************************************************************)
(* The host driving one VM                                                 *)
(***************************************************************************)
\* vm:     the VM object the host holds
\* image:  the VMImage the last returning run() handed back
\* thrown: the error the last call threw ("" when it returned)
\* last:   the last call: its name, its arguments, and whether a syscall
\*         was pending when it was made
VARIABLES vm, image, thrown, last, chunk, calls

vars == <<vm, image, thrown, last, chunk, calls>>

\* The host has made no chunk.
NoChunk == Chunk(0)
NoCalls == [op |-> "none", writes |-> <<>>, value |-> "", ret |-> 0,
            err |-> "", before |-> <<>>]

NoImage == [state |-> SerializeState(Create([data |-> <<>>, text |-> <<>>])),
            status |-> "none", syscall |-> NoSyscall]

NoError == [err |-> "", line |-> 0]

MaxSteps == 2
StepBudgets == (0..MaxSteps) \cup {Infinity}

\* The values the host feeds on resume: none, a number, a list.
FeedValues ==
    {NoArg, TNum(3), MkTree(ListV(0), <<TNum(1)>>, NoFunction)}

Init ==
    /\ \E p \in Programs : p.err = "" /\ vm = Create(p)
    /\ image = NoImage
    /\ thrown = NoError
    /\ last = [op |-> "create", steps |-> 0, arg |-> NoArg, pending |-> FALSE]
    /\ chunk = NoChunk
    /\ calls = NoCalls

\* vm.run(steps)
Run(steps) ==
    LET Return(r) ==
            /\ vm' = r.vm
            /\ thrown' = [err |-> r.err, line |-> r.line]
            /\ image' = IF r.err = "" THEN Serialize(r.vm, StatusOf(r.vm))
                                      ELSE image
    IN  /\ Return(RunLoop(vm, steps))
        /\ last' = [op |-> "run", steps |-> steps, arg |-> NoArg,
                     pending |-> vm.syscall.set]
        /\ UNCHANGED <<chunk, calls>>

\* vm = VM.deserialize(image, arg)
Resume(arg) ==
    /\ image.status # "none"
    /\ LET Return(r) ==
               /\ vm' = r.vm
               /\ thrown' = [err |-> r.err, line |-> r.line]
       IN  Return(Deserialize(image, arg))
    /\ image' = image
    /\ last' = [op |-> "deserialize", steps |-> 0, arg |-> arg,
                 pending |-> vm.syscall.set]
    /\ UNCHANGED <<chunk, calls>>

Next ==
    \/ \E steps \in StepBudgets : Run(steps)
    \/ \E arg \in FeedValues : Resume(arg)

Spec == Init /\ [][Next]_vars

(***************************************************************************)
(* Programs that exercise single instructions                              *)
(***************************************************************************)
\* func f(x) { return x + 1; }  func g() { return; }  func h() { }
\* syscall("ret", f(1), g(), h());
SrcRet ==
    <<Func(1, "f", <<"x">>,
           BlockOf(1, <<Ret(1, Bin(1, "PLUS", Id(1, "x"), Lit(1, 1)))>>)),
      Func(2, "g", <<>>, BlockOf(2, <<RetNone(2)>>)),
      Func(3, "h", <<>>, BlockOf(3, <<>>)),
      Report(4, "ret", <<CallOf(4, Id(4, "f"), <<Lit(4, 1)>>),
                         CallOf(4, Id(4, "g"), <<>>),
                         CallOf(4, Id(4, "h"), <<>>)>>)>>

\* let a = 1; return; syscall("never");
SrcTopReturn ==
    <<Let(1, "a", Lit(1, 1)), RetNone(2), Report(3, "never", <<>>)>>

\* let a = 1; a = 2; syscall("g", a); let a = 3; syscall("never");
SrcGlobals ==
    <<Let(1, "a", Lit(1, 1)),
      Expr(2, Assign(2, Id(2, "a"), "ASSIGN", Lit(2, 2))),
      Report(3, "g", <<Id(3, "a")>>),
      Let(4, "a", Lit(4, 3)),
      Report(5, "never", <<>>)>>

\* x = 1; syscall("never");
SrcUndeclaredSet ==
    <<Expr(1, Assign(1, Id(1, "x"), "ASSIGN", Lit(1, 1))),
      Report(2, "never", <<>>)>>

\* let a = 1; syscall("never", a + y);
SrcUndeclaredLoad ==
    <<Let(1, "a", Lit(1, 1)),
      Report(2, "never", <<Bin(2, "PLUS", Id(2, "a"), Id(2, "y"))>>)>>

\* The literal k, which the parser reads as -(n) when k is negative.
KeyOf(l, k) == IF k < 0 THEN Un(l, "MINUS", Lit(l, -k)) ELSE Lit(l, k)

\* let t = (1, 2); syscall("sub", t[k]);
SrcSubscriptTuple(k) ==
    <<Let(1, "t", TupleOf(1, <<Lit(1, 1), Lit(1, 2)>>)),
      Report(2, "sub", <<Sub(2, Id(2, "t"), KeyOf(2, k))>>)>>

\* let l = [5, 6, 7]; syscall("sub", l[k]);
SrcSubscriptList(k) ==
    <<Let(1, "l", ListOf(1, <<Lit(1, 5), Lit(1, 6), Lit(1, 7)>>)),
      Report(2, "sub", <<Sub(2, Id(2, "l"), KeyOf(2, k))>>)>>

\* The keys tried: below 0, in range, the length itself, and past it.
MaxKey == 4
Keys == (-1)..MaxKey

\* syscall("q", a op b);
SrcArith(op, a, b) ==
    <<Report(1, "q", <<Bin(1, op, KeyOf(1, a), KeyOf(1, b))>>)>>

\* syscall("q", (7 / 2) op (3 / b));
SrcArithFractions(op, b) ==
    <<Report(1, "q", <<Bin(1, op, Bin(1, "DIV", Lit(1, 7), Lit(1, 2)),
                                  Bin(1, "DIV", Lit(1, 3), KeyOf(1, b)))>>)>>

Dividends == {-7, 0, 7}
Divisors  == {-2, 0, 2}

\* let a = [1]; let b = a; let c = [2]; a += c; syscall("app", a, b, c);
SrcAppend ==
    <<Let(1, "a", ListOf(1, <<Lit(1, 1)>>)),
      Let(2, "b", Id(2, "a")),
      Let(3, "c", ListOf(3, <<Lit(3, 2)>>)),
      Assign(4, Id(4, "a"), "PLUS_ASSIGN", Id(4, "c")),
      Report(5, "app", <<Id(5, "a"), Id(5, "b"), Id(5, "c")>>)>>

\* let a = [1]; let c = [2]; let d = a + c; syscall("cat", a, c, d);
SrcConcat ==
    <<Let(1, "a", ListOf(1, <<Lit(1, 1)>>)),
      Let(2, "c", ListOf(2, <<Lit(2, 2)>>)),
      Let(3, "d", Bin(3, "PLUS", Id(3, "a"), Id(3, "c"))),
      Report(4, "cat", <<Id(4, "a"), Id(4, "c"), Id(4, "d")>>)>>

\* let a = [1]; a += a; syscall("self", a);
SrcAppendSelf ==
    <<Let(1, "a", ListOf(1, <<Lit(1, 1)>>)),
      Assign(2, Id(2, "a"), "PLUS_ASSIGN", Id(2, "a")),
      Report(3, "self", <<Id(3, "a")>>)>>

\* syscall("eq", lhs == rhs, lhs != rhs);
SrcCompare(lhs, rhs) ==
    <<Report(1, "eq", <<Bin(1, "EQ", lhs, rhs), Bin(1, "NEQ", lhs, rhs)>>)>>

\* let a = [1]; let b = a; syscall("same", a == b, a != b);
SrcCompareAlias ==
    <<Let(1, "a", ListOf(1, <<Lit(1, 1)>>)),
      Let(2, "b", Id(2, "a")),
      Report(3, "same", <<Bin(3, "EQ", Id(3, "a"), Id(3, "b")),
                          Bin(3, "NEQ", Id(3, "a"), Id(3, "b"))>>)>>

Comparands ==
    {Lit(1, 1), Lit(1, 2), LitS(1, "1"),
     TupleOf(1, <<Lit(1, 1), Lit(1, 2)>>), ListOf(1, <<Lit(1, 1)>>)}

\* let g = [1]; func f(p) { p[0] = 5; return p; } let t = (g, 2);
\* let r = f(g); { let loc = g; loc += [7]; } syscall("alias", g, r, t[0]);
SrcShared ==
    <<Let(1, "g", ListOf(1, <<Lit(1, 1)>>)),
      Func(2, "f", <<"p">>,
           BlockOf(2, <<Expr(2, Assign(2, Sub(2, Id(2, "p"), Lit(2, 0)),
                                       "ASSIGN", Lit(2, 5))),
                        Ret(2, Id(2, "p"))>>)),
      Let(3, "t", TupleOf(3, <<Id(3, "g"), Lit(3, 2)>>)),
      Let(4, "r", CallOf(4, Id(4, "f"), <<Id(4, "g")>>)),
      BlockOf(5, <<Let(5, "loc", Id(5, "g")),
                   Expr(5, Assign(5, Id(5, "loc"), "PLUS_ASSIGN",
                                  ListOf(5, <<Lit(5, 7)>>)))>>),
      Report(6, "alias", <<Id(6, "g"), Id(6, "r"),
                           Sub(6, Id(6, "t"), Lit(6, 0))>>)>>

\* let i = 0;
\* while (i < 3) { i = i + 1;
\*                  if (i == 1) { continue; } else { if (i == 2) { break; } } }
\* syscall("while", i);
SrcWhile ==
    <<Let(1, "i", Lit(1, 0)),
      WhileOf(2, Bin(2, "LT", Id(2, "i"), Lit(2, 3)),
              BlockOf(2, <<Expr(2, Assign(2, Id(2, "i"), "ASSIGN",
                                          Bin(2, "PLUS", Id(2, "i"),
                                              Lit(2, 1)))),
                           IfElse(2, Bin(2, "EQ", Id(2, "i"), Lit(2, 1)),
                                  BlockOf(2, <<ContinueStmt(2)>>),
                                  BlockOf(2, <<IfThen(2,
                                      Bin(2, "EQ", Id(2, "i"), Lit(2, 2)),
                                      BlockOf(2, <<BreakStmt(2)>>))>>))>>)),
      Report(3, "while", <<Id(3, "i")>>)>>

\* for (let j = 0; ; j = j + 1) { if (j > 0) { break; } continue; }
\* syscall("for", j);
SrcFor ==
    <<ForOf(1, Let(1, "j", Lit(1, 0)), Empty(1),
            Expr(1, Assign(1, Id(1, "j"), "ASSIGN",
                           Bin(1, "PLUS", Id(1, "j"), Lit(1, 1)))),
            BlockOf(1, <<IfThen(1, Bin(1, "GT", Id(1, "j"), Lit(1, 0)),
                                BlockOf(1, <<BreakStmt(1)>>)),
                         ContinueStmt(1)>>)),
      Report(2, "for", <<Id(2, "j")>>)>>

\* func f(n) { while (n > 0) { if (n == 1) { break; } n = n - 1; } }
\* syscall("floop", f(2));
SrcFuncLoop ==
    <<Func(1, "f", <<"n">>,
           BlockOf(1, <<WhileOf(1, Bin(1, "GT", Id(1, "n"), Lit(1, 0)),
              BlockOf(1, <<IfThen(1, Bin(1, "EQ", Id(1, "n"), Lit(1, 1)),
                                  BlockOf(1, <<BreakStmt(1)>>)),
                           Expr(1, Assign(1, Id(1, "n"), "ASSIGN",
                                          Bin(1, "MINUS", Id(1, "n"),
                                              Lit(1, 1))))>>))>>)),
      Report(2, "floop", <<CallOf(2, Id(2, "f"), <<Lit(2, 2)>>)>>)>>

OpSources ==
    {SrcRet, SrcTopReturn, SrcGlobals, SrcUndeclaredSet, SrcUndeclaredLoad,
     SrcAppend, SrcConcat, SrcAppendSelf, SrcCompareAlias, SrcShared,
     SrcWhile, SrcFor, SrcFuncLoop}
    \cup {SrcCompare(lhs, rhs) : lhs \in Comparands, rhs \in Comparands}
    \cup {SrcSubscriptTuple(k) : k \in Keys}
    \cup {SrcSubscriptList(k) : k \in Keys}
    \cup {SrcArith(op, a, b) :
             op \in {"DIV", "MOD"}, a \in Dividends, b \in Divisors}
    \cup {SrcArithFractions(op, b) : op \in {"DIV", "MOD"}, b \in Divisors}

OpPrograms == {Compile(src) : src \in OpSources}

InitOps ==
    /\ \E p \in OpPrograms : p.err = "" /\ vm = Create(p)
    /\ image = NoImage
    /\ thrown = NoError
    /\ last = [op |-> "create", steps |-> 0, arg |-> NoArg, pending |-> FALSE]
    /\ chunk = NoChunk
    /\ calls = NoCalls

SpecOps == InitOps /\ [][Next]_vars

(***************************************************************************)
(* Programs that exercise scopes, locals and control flow, run by a host   *)
(* that steps the VM with a finite budget                                  *)
(***************************************************************************)
\* func f(a, b) { let c = a + b; { let d = c; c = d + 1; } return c; }
\* syscall("locals", f(1, 2));
SrcLocals ==
    <<Func(1, "f", <<"a", "b">>,
           BlockOf(1, <<Let(1, "c", Bin(1, "PLUS", Id(1, "a"), Id(1, "b"))),
                        BlockOf(1, <<Let(1, "d", Id(1, "c")),
                                     Expr(1, Assign(1, Id(1, "c"), "ASSIGN",
                                                    Bin(1, "PLUS", Id(1, "d"),
                                                        Lit(1, 1))))>>),
                        Ret(1, Id(1, "c"))>>)),
      Report(2, "locals", <<CallOf(2, Id(2, "f"), <<Lit(2, 1), Lit(2, 2)>>)>>)>>

\* { let a = 1; { let b = a; a = b + 1; } syscall("block", a); }
SrcBlock ==
    <<BlockOf(1, <<Let(1, "a", Lit(1, 1)),
                   BlockOf(1, <<Let(1, "b", Id(1, "a")),
                                Expr(1, Assign(1, Id(1, "a"), "ASSIGN",
                                               Bin(1, "PLUS", Id(1, "b"),
                                                   Lit(1, 1))))>>),
                   Report(1, "block", <<Id(1, "a")>>)>>)>>

\* func ask(x) { let v = input(x); let w = v; return w; }
\* syscall("asked", ask("q"));
SrcAskLocal ==
    <<Func(1, "ask", <<"x">>,
           BlockOf(1, <<Let(1, "v", CallOf(1, Id(1, "input"), <<Id(1, "x")>>)),
                        Let(1, "w", Id(1, "v")),
                        Ret(1, Id(1, "w"))>>)),
      Report(2, "asked", <<CallOf(2, Id(2, "ask"), <<LitS(2, "q")>>)>>)>>

\* func f() { let a = 1; while (a < 5) { let b = 7; break; }
\*            let c = 3; return c; }
\* syscall("leak", f());
SrcBreakLeak ==
    <<Func(1, "f", <<>>,
           BlockOf(1, <<Let(1, "a", Lit(1, 1)),
                        WhileOf(1, Bin(1, "LT", Id(1, "a"), Lit(1, 5)),
                                BlockOf(1, <<Let(1, "b", Lit(1, 7)),
                                             BreakStmt(1)>>)),
                        Let(1, "c", Lit(1, 3)),
                        Ret(1, Id(1, "c"))>>)),
      Report(2, "leak", <<CallOf(2, Id(2, "f"), <<>>)>>)>>

\* func g() { let n = 0; while (n < 1) { let b = 7; n = n + 1; continue; }
\*            let c = 3; return c; }
\* syscall("skip", g());
SrcContinueLeak ==
    <<Func(1, "g", <<>>,
           BlockOf(1, <<Let(1, "n", Lit(1, 0)),
                        WhileOf(1, Bin(1, "LT", Id(1, "n"), Lit(1, 1)),
                                BlockOf(1, <<Let(1, "b", Lit(1, 7)),
                                             Expr(1, Assign(1, Id(1, "n"),
                                                  "ASSIGN",
                                                  Bin(1, "PLUS", Id(1, "n"),
                                                      Lit(1, 1)))),
                                             ContinueStmt(1)>>)),
                        Let(1, "c", Lit(1, 3)),
                        Ret(1, Id(1, "c"))>>)),
      Report(2, "skip", <<CallOf(2, Id(2, "g"), <<>>)>>)>>

\* let s = 0;
\* for (let i = 0; i < 10; i = i + 1) { if (i == 5) { break; } s = s + i; }
\* syscall("r", s);
SrcForSum ==
    <<Let(1, "s", Lit(1, 0)),
      ForOf(2, Let(2, "i", Lit(2, 0)),
            Bin(2, "LT", Id(2, "i"), Lit(2, 10)),
            Expr(2, Assign(2, Id(2, "i"), "ASSIGN",
                           Bin(2, "PLUS", Id(2, "i"), Lit(2, 1)))),
            BlockOf(2, <<IfThen(2, Bin(2, "EQ", Id(2, "i"), Lit(2, 5)),
                                BlockOf(2, <<BreakStmt(2)>>)),
                         Expr(2, Assign(2, Id(2, "s"), "ASSIGN",
                                        Bin(2, "PLUS", Id(2, "s"),
                                            Id(2, "i"))))>>)),
      Report(3, "r", <<Id(3, "s")>>)>>

\* let n = 0; let k = 0;
\* while (k < 2) {
\*   k = k + 1;
\*   for (let j = 0; j < 4; j = j + 1) {
\*     if (j == 1) { continue; }  if (j == 2) { break; }  n = n + 10; }
\*   n = n + 1; }
\* syscall("nest", n, k);
SrcNested ==
    <<Let(1, "n", Lit(1, 0)),
      Let(1, "k", Lit(1, 0)),
      WhileOf(2, Bin(2, "LT", Id(2, "k"), Lit(2, 2)),
        BlockOf(2,
          <<Expr(3, Assign(3, Id(3, "k"), "ASSIGN",
                           Bin(3, "PLUS", Id(3, "k"), Lit(3, 1)))),
            ForOf(4, Let(4, "j", Lit(4, 0)),
                  Bin(4, "LT", Id(4, "j"), Lit(4, 4)),
                  Expr(4, Assign(4, Id(4, "j"), "ASSIGN",
                                 Bin(4, "PLUS", Id(4, "j"), Lit(4, 1)))),
                  BlockOf(4,
                    <<IfThen(5, Bin(5, "EQ", Id(5, "j"), Lit(5, 1)),
                             BlockOf(5, <<ContinueStmt(5)>>)),
                      IfThen(5, Bin(5, "EQ", Id(5, "j"), Lit(5, 2)),
                             BlockOf(5, <<BreakStmt(5)>>)),
                      Expr(5, Assign(5, Id(5, "n"), "ASSIGN",
                                     Bin(5, "PLUS", Id(5, "n"),
                                         Lit(5, 10))))>>)),
            Expr(6, Assign(6, Id(6, "n"), "ASSIGN",
                           Bin(6, "PLUS", Id(6, "n"), Lit(6, 1))))>>)),
      Report(7, "nest", <<Id(7, "n"), Id(7, "k")>>)>>

\* break;
SrcBreakOutside == <<BreakStmt(1)>>

\* continue;
SrcContinueOutside == <<ContinueStmt(1)>>

\* while (0 < 1) { } break;
SrcBreakAfterLoop ==
    <<WhileOf(1, Bin(1, "LT", Lit(1, 0), Lit(1, 1)), BlockOf(1, <<>>)),
      BreakStmt(2)>>

\* while (0 < 1) { func f() { break; } }
SrcBreakInFunction ==
    <<WhileOf(1, Bin(1, "LT", Lit(1, 0), Lit(1, 1)),
              BlockOf(1, <<Func(2, "f", <<>>,
                                BlockOf(2, <<BreakStmt(2)>>))>>))>>

\* for (let i = 0; i < 1; i = i + 1) { func f() { continue; } }
SrcContinueInFunction ==
    <<ForOf(1, Let(1, "i", Lit(1, 0)),
            Bin(1, "LT", Id(1, "i"), Lit(1, 1)),
            Expr(1, Assign(1, Id(1, "i"), "ASSIGN",
                           Bin(1, "PLUS", Id(1, "i"), Lit(1, 1)))),
            BlockOf(1, <<Func(2, "f", <<>>,
                              BlockOf(2, <<ContinueStmt(2)>>))>>))>>

\* The sources with a break or continue outside the loops of its function.
StraySources ==
    {SrcBreakOutside, SrcContinueOutside, SrcBreakAfterLoop,
     SrcBreakInFunction, SrcContinueInFunction}

\* The sources whose every break and continue is inside a loop.
LoopSources ==
    {SrcBreakLeak, SrcContinueLeak, SrcForSum, SrcNested}

\* func f(f) { f = 5; return f; }  syscall("shadow", f(2));
SrcShadowSelf ==
    <<Func(1, "f", <<"f">>,
           BlockOf(1, <<Expr(1, Assign(1, Id(1, "f"), "ASSIGN", Lit(1, 5))),
                        Ret(1, Id(1, "f"))>>)),
      Report(2, "shadow", <<CallOf(2, Id(2, "f"), <<Lit(2, 2)>>)>>)>>

\* The scopes a name is resolved in: the top level, a block at the top
\* level, and the body of func f(a), of func f(a) with a local b, and of
\* func f(f).
ScopeStates ==
    {Compiler(<<>>, <<>>),
     [Compiler(<<Local("a", 1), Local("b", 2)>>, <<>>) EXCEPT !.depth = 2],
     [Compiler(<<Local("f", 0), Local("a", 1)>>, <<>>) EXCEPT !.depth = 1],
     [Compiler(<<Local("f", 0), Local("a", 1), Local("b", 1)>>, <<>>)
         EXCEPT !.depth = 1],
     [Compiler(<<Local("f", 0), Local("f", 1)>>, <<>>) EXCEPT !.depth = 1]}

ScopeNames == {"a", "b", "f", "x"}

\* { let a = 1; let a = 2; }
SrcRedeclare ==
    <<BlockOf(1, <<Let(1, "a", Lit(1, 1)), Let(2, "a", Lit(2, 2))>>)>>

\* { let a = 1; { let a = 2; syscall("inner", a); } }
SrcShadowBlock ==
    <<BlockOf(1, <<Let(1, "a", Lit(1, 1)),
                   BlockOf(2, <<Let(2, "a", Lit(2, 2)),
                                Report(2, "inner", <<Id(2, "a")>>)>>)>>)>>

\* ++x, --x (prefix) and x++, x-- (postfix)
StepOf(l, op, prefix, rand) ==
    [kind |-> "UnaryOperation", lineNumber |-> l, op |-> op, rand |-> rand,
     prefix |-> prefix]

StepName(op, prefix, scope) ==
    op \o (IF prefix THEN "pre" ELSE "post") \o scope

\* let x = 3; syscall(name, ++x, x);
SrcStepGlobal(op, prefix) ==
    <<Let(1, "x", Lit(1, 3)),
      Report(2, StepName(op, prefix, "global"),
             <<StepOf(2, op, prefix, Id(2, "x")), Id(2, "x")>>)>>

\* { let x = 3; syscall(name, ++x, x); }
SrcStepLocal(op, prefix) ==
    <<BlockOf(1, <<Let(1, "x", Lit(1, 3)),
                   Report(2, StepName(op, prefix, "local"),
                          <<StepOf(2, op, prefix, Id(2, "x")),
                            Id(2, "x")>>)>>)>>

\* syscall("never", ++1);  and  let t = [1]; syscall("never", t[0]++);
SrcStepLiteral ==
    <<Report(1, "never", <<StepOf(1, "INC", TRUE, Lit(1, 1))>>)>>
SrcStepSubscript ==
    <<Let(1, "t", ListOf(1, <<Lit(1, 1)>>)),
      Report(2, "never",
             <<StepOf(2, "INC", FALSE, Sub(2, Id(2, "t"), Lit(2, 0)))>>)>>

StepSources ==
    {SrcStepGlobal(op, prefix) : op \in {"INC", "DEC"}, prefix \in BOOLEAN}
    \cup {SrcStepLocal(op, prefix) : op \in {"INC", "DEC"}, prefix \in BOOLEAN}

MaxFact == 5

\* func fact(n) { if (n <= 1) { return 1; } return n * fact(n - 1); }
\* syscall("fact", fact(5));
SrcFactorial ==
    <<Func(1, "fact", <<"n">>,
           BlockOf(1, <<IfThen(2, Bin(2, "LTE", Id(2, "n"), Lit(2, 1)),
                               BlockOf(2, <<Ret(2, Lit(2, 1))>>)),
                        Ret(3, Bin(3, "MUL", Id(3, "n"),
                                   CallOf(3, Id(3, "fact"),
                                          <<Bin(3, "MINUS", Id(3, "n"),
                                                Lit(3, 1))>>)))>>)),
      Report(4, "fact", <<CallOf(4, Id(4, "fact"), <<Lit(4, MaxFact)>>)>>)>>

\* { let a = 1; func peek() { return a; } syscall("cap", peek()); }
SrcCapture ==
    <<BlockOf(1, <<Let(1, "a", Lit(1, 1)),
                   Func(2, "peek", <<>>, BlockOf(2, <<Ret(2, Id(2, "a"))>>)),
                   Report(3, "cap", <<CallOf(3, Id(3, "peek"), <<>>)>>)>>)>>

\* func outer(a) { func held() { return a; } return held(); }
\* syscall("cap", outer(3));
SrcCaptureParam ==
    <<Func(1, "outer", <<"a">>,
           BlockOf(1, <<Func(2, "held", <<>>,
                             BlockOf(2, <<Ret(2, Id(2, "a"))>>)),
                        Ret(3, CallOf(3, Id(3, "held"), <<>>))>>)),
      Report(4, "cap", <<CallOf(4, Id(4, "outer"), <<Lit(4, 3)>>)>>)>>

\* let a = 9; { let a = 1; func peek() { return a; } syscall("capgl", peek()); }
SrcCaptureGlobal ==
    <<Let(1, "a", Lit(1, 9)),
      BlockOf(2, <<Let(2, "a", Lit(2, 1)),
                   Func(3, "peek", <<>>, BlockOf(3, <<Ret(3, Id(3, "a"))>>)),
                   Report(4, "capgl", <<CallOf(4, Id(4, "peek"), <<>>)>>)>>)>>

CaptureSources == {SrcCapture, SrcCaptureParam, SrcCaptureGlobal}

\* let len = 1;   (and the same for every native and syscall name)
SrcClashLet(name) == <<Let(1, name, Lit(1, 1))>>

\* func len() { return 1; }
SrcClashFunc(name) ==
    <<Func(1, name, <<>>, BlockOf(1, <<Ret(1, Lit(1, 1))>>))>>

ClashSources ==
    {SrcClashLet(name) : name \in NativeNames \cup SyscallNames}
    \cup {SrcClashFunc(name) : name \in NativeNames \cup SyscallNames}

\* The conditions of the if statements, with the truthiness JavaScript
\* gives their value.
Conditions ==
    {[name |-> "zero",  e |-> Lit(1, 0),  truthy |-> FALSE],
     [name |-> "two",   e |-> Lit(1, 2),  truthy |-> TRUE],
     [name |-> "less",  e |-> Bin(1, "LT", Lit(1, 0), Lit(1, 1)),
      truthy |-> TRUE],
     [name |-> "more",  e |-> Bin(1, "LT", Lit(1, 1), Lit(1, 0)),
      truthy |-> FALSE],
     [name |-> "blank", e |-> LitS(1, ""),  truthy |-> FALSE],
     [name |-> "text",  e |-> LitS(1, "a"), truthy |-> TRUE]}

\* r = r + n;
Bump(l, name, n) ==
    Expr(l, Assign(l, Id(l, name), "ASSIGN",
                   Bin(l, "PLUS", Id(l, name), Lit(l, n))))

\* let r = 0; if (c) { r = r + 1; } else { r = r + 10; } syscall(name, r);
SrcIfElse(c) ==
    <<Let(1, "r", Lit(1, 0)),
      IfElse(1, c.e, BlockOf(2, <<Bump(2, "r", 1)>>),
                     BlockOf(3, <<Bump(3, "r", 10)>>)),
      Report(4, "ifelse" \o c.name, <<Id(4, "r")>>)>>

\* let r = 0; if (c) { r = r + 1; } r = r + 10; syscall(name, r);
SrcIfOnly(c) ==
    <<Let(1, "r", Lit(1, 0)),
      IfThen(1, c.e, BlockOf(2, <<Bump(2, "r", 1)>>)),
      Bump(3, "r", 10),
      Report(4, "if" \o c.name, <<Id(4, "r")>>)>>

LoopLimit == 3
LoopStarts == {0, 3, 5}

\* let n = k; let t = 0; while (n < 3) { n = n + 1; t = t + 1; }
\* syscall("count", k, t, n);
SrcCount(k) ==
    <<Let(1, "n", Lit(1, k)),
      Let(1, "t", Lit(1, 0)),
      WhileOf(2, Bin(2, "LT", Id(2, "n"), Lit(2, LoopLimit)),
              BlockOf(2, <<Bump(3, "n", 1), Bump(3, "t", 1)>>)),
      Report(4, "count", <<Lit(4, k), Id(4, "t"), Id(4, "n")>>)>>

\* let u = 0;
\* for (let w = 0; ; w = w + 1) { if (w == 3) { break; } u = u + 1; }
\* syscall("forever", u, w);
SrcForEver ==
    <<Let(1, "u", Lit(1, 0)),
      ForOf(2, Let(2, "w", Lit(2, 0)), Empty(2), Bump(2, "w", 1),
            BlockOf(2, <<IfThen(3, Bin(3, "EQ", Id(3, "w"),
                                       Lit(3, LoopLimit)),
                                BlockOf(3, <<BreakStmt(3)>>)),
                         Bump(4, "u", 1)>>)),
      Report(5, "forever", <<Id(5, "u"), Id(5, "w")>>)>>

\* let z = 0; for (;;) { z = z + 1; z = z - 1; } syscall("spun", z);
SrcSpin ==
    <<Let(1, "z", Lit(1, 0)),
      ForOf(2, Empty(2), Empty(2), Empty(2),
            BlockOf(2, <<Bump(3, "z", 1), Bump(3, "z", -1)>>)),
      Report(4, "spun", <<Id(4, "z")>>)>>

ControlSources ==
    {SrcIfElse(c) : c \in Conditions} \cup {SrcIfOnly(c) : c \in Conditions}
    \cup {SrcCount(k) : k \in LoopStarts} \cup {SrcForEver, SrcSpin}

StoreKeys == (-1)..3

\* let a = [1, 2]; a[k] = 9; syscall("stored", a);
SrcStoreList(k) ==
    <<Let(1, "a", ListOf(1, <<Lit(1, 1), Lit(1, 2)>>)),
      Expr(2, Assign(2, Sub(2, Id(2, "a"), Lit(2, k)), "ASSIGN", Lit(2, 9))),
      Report(3, "stored", <<Id(3, "a")>>)>>

\* let t = (1, 2); t[k] = 9; syscall("tuple", t);
SrcStoreTuple(k) ==
    <<Let(1, "t", TupleOf(1, <<Lit(1, 1), Lit(1, 2)>>)),
      Expr(2, Assign(2, Sub(2, Id(2, "t"), Lit(2, k)), "ASSIGN", Lit(2, 9))),
      Report(3, "tuple", <<Id(3, "t")>>)>>

StoreSources ==
    {SrcStoreList(k) : k \in StoreKeys} \cup {SrcStoreTuple(k) : k \in {0, 3}}

\* The source with no statement; its program has no instruction.
SrcEmpty == <<>>

\* let k = 1; syscall("never", k + "a");
SrcTrapAdd ==
    <<Let(1, "k", Lit(1, 1)),
      Report(2, "never", <<Bin(2, "PLUS", Id(2, "k"), LitS(2, "a"))>>)>>

\* let k = 1; syscall("never", k / 0);
SrcTrapDiv ==
    <<Let(1, "k", Lit(1, 1)),
      Report(2, "never", <<Bin(2, "DIV", Id(2, "k"), Lit(2, 0))>>)>>

\* let a = [1]; syscall("never", a[5]);
SrcTrapIndex ==
    <<Let(1, "a", ListOf(1, <<Lit(1, 1)>>)),
      Report(2, "never", <<Sub(2, Id(2, "a"), Lit(2, 5))>>)>>

\* let k = 1; syscall("never", k(2));
SrcTrapCall ==
    <<Let(1, "k", Lit(1, 1)),
      Report(2, "never", <<CallOf(2, Id(2, "k"), <<Lit(2, 2)>>)>>)>>

\* func one(a) { return a; } syscall("never", one());
SrcTrapArity ==
    <<Func(1, "one", <<"a">>, BlockOf(1, <<Ret(1, Id(1, "a"))>>)),
      Report(2, "never", <<CallOf(2, Id(2, "one"), <<>>)>>)>>

TrapSources ==
    {SrcTrapAdd, SrcTrapDiv, SrcTrapIndex, SrcTrapCall, SrcTrapArity}

ScopeSources ==
    {SrcLocals, SrcBlock, SrcAskLocal, SrcShadowSelf, SrcFactorial, SrcShared,
     SrcEmpty,
     SrcRedeclare, SrcShadowBlock, SrcStepLiteral, SrcStepSubscript}
    \cup StepSources \cup CaptureSources \cup ClashSources
    \cup ControlSources \cup StoreSources \cup TrapSources
    \cup LoopSources \cup StraySources

\* The VM the host holds before it has compiled a source.
Blank == Create([text |-> <<>>, data |-> <<>>])

InitScopes ==
    /\ vm = Blank
    /\ image = NoImage
    /\ thrown = NoError
    /\ last = [op |-> "create", steps |-> 0, arg |-> NoArg, pending |-> FALSE]
    /\ chunk = NoChunk
    /\ calls = NoCalls

\* vm = VM.create(compile(source)): a compile error is thrown to the host
\* and there is no Program to create a VM from.
Load(src) ==
    /\ last.op = "create"
    /\ LET Loaded(p) ==
               /\ vm' = IF p.err = "" THEN Create(p) ELSE vm
               /\ thrown' = [err |-> p.err, line |-> 0]
       IN  Loaded(Compile(src))
    /\ image' = image
    /\ last' = [op |-> "compile", steps |-> 0, arg |-> NoArg,
                 pending |-> FALSE, src |-> src]
    /\ UNCHANGED <<chunk, calls>>

\* The host runs the VM a few instructions at a time.
HostBudgets == 1..MaxSteps

\* deserialize(image, value) of a trap is given the value of the syscall.
NextScopes ==
    \/ \E src \in ScopeSources : Load(src)
    \/ \E steps \in HostBudgets : last.op # "create" /\ Run(steps)
    \/ \E arg \in FeedValues :
          /\ image.status = "syscall" => arg # NoArg
          /\ Resume(arg)

SpecScopes == InitScopes /\ [][NextScopes]_vars

(***************************************************************************)
(* The host filling one Chunk.  calls records what the host did: the       *)
(* (byte, line) pairs it wrote, and of its last call the operation, the    *)
(* value passed, what it returned or threw, and the constants before it.   *)
(***************************************************************************)
MaxWrites == 3
MaxMixed == 1
MaxConstants == 258

ChunkCapacities == {1, 2}
Bytes == {7, 300}
Lines == {1, 600}
ConstantValues == {"x", "y"}

InitChunk ==
    /\ vm = Blank
    /\ image = NoImage
    /\ thrown = NoError
    /\ last = [op |-> "create", steps |-> 0, arg |-> NoArg, pending |-> FALSE]
    /\ \E capacity \in ChunkCapacities : chunk = Chunk(capacity)
    /\ calls = [NoCalls EXCEPT !.op = "new"]

\* chunk.write(byte, line)
Write(byte, line) ==
    /\ Len(calls.writes) < MaxWrites
    /\ Len(chunk.constants) <= MaxMixed
    /\ chunk' = write(chunk, byte, line)
    /\ calls' = [calls EXCEPT !.op = "write",
                              !.writes = Append(@, <<byte, line>>),
                              !.err = "",
                              !.before = chunk.constants]
    /\ UNCHANGED <<vm, image, thrown, last>>

\* chunk.makeConstant(value); the call may throw.
MakeConstant(value) ==
    /\ Len(chunk.constants) < MaxConstants
    /\ Len(calls.writes) <= MaxMixed
    /\ Len(chunk.constants) >= MaxMixed => value = "x"
    /\ LET Return(r) ==
               /\ chunk' = r.chunk
               /\ calls' = [calls EXCEPT !.op = "makeConstant",
                                         !.value = value,
                                         !.ret = r.ret,
                                         !.err = r.err,
                                         !.before = chunk.constants]
       IN  Return(makeConstant(chunk, value))
    /\ UNCHANGED <<vm, image, thrown, last>>

NextChunk ==
    \/ \E byte \in Bytes, line \in Lines : Write(byte, line)
    \/ \E value \in ConstantValues : MakeConstant(value)

SpecChunk == InitChunk /\ [][NextChunk]_vars

(***************************************************************************)
(* Properties                                                              *)
(***************************************************************************)
\* The VM is about to fetch an instruction.
Runnable(v) ==
    /\ Len(v.frames) > 0
    /\ ~v.syscall.set
    /\ Ip(v) >= 0
    /\ Ip(v) < Len(Text(v))

NextIns(v) == Text(v)[Ip(v) + 1]

ArgCount(ins) == IF ins.value = NoVal THEN 0 ELSE ins.value

\* The frames below the innermost of v are those of w.
LowerFramesKept(v, w) ==
    /\ Len(w.frames) >= Len(v.frames) - 1
    /\ \A i \in 1..(Len(v.frames) - 1) : w.frames[i] = v.frames[i]

ReturnedFromRun == last.op = "run" /\ thrown.err = ""

\* C1: whenever run() returns with status SYSCALL the frame stack is not
\* empty and the innermost ip is the index right after the trapping CALL;
\* and the step that traps moves ip by one, pops the callee and its
\* arguments and pushes nothing, on no operand stack.
C1_TrapIsQuiescent ==
    /\ (ReturnedFromRun /\ image.status = "syscall") =>
          /\ Len(vm.frames) > 0
          /\ Ip(vm) >= 1 /\ Ip(vm) < Len(Text(vm))
          /\ Text(vm)[Ip(vm)].type = "call"
          /\ vm.syscall.set
          /\ image.state = SerializeState(vm)
    /\ Runnable(vm) =>
          LET r == Step(vm)
          IN  (r.err = "" /\ r.vm.syscall.set) =>
                 /\ NextIns(vm).type = "call"
                 /\ Len(r.vm.frames) = Len(vm.frames)
                 /\ LowerFramesKept(vm, r.vm)
                 /\ Ip(r.vm) = Ip(vm) + 1
                 /\ Text(r.vm) = Text(vm)
                 /\ Stack(r.vm) = Front(Stack(vm), ArgCount(NextIns(vm)) + 1)

\* A run() has returned SYSCALL from inside a function's frame.
C1_Witness ==
    /\ ReturnedFromRun /\ image.status = "syscall"
    /\ Len(vm.frames) >= 2
    /\ Len(Stack(vm)) > 0

\* The frames of a serialized state, the innermost operand stack left out.
FramesButTopStack(state) ==
    [i \in 1..Len(state.frames) |->
        IF i = Len(state.frames)
        THEN [state.frames[i] EXCEPT !.stack = <<>>]
        ELSE state.frames[i]]

\* C2: VM.deserialize(image, V) of a SYSCALL image with a value V yields
\* the serialized VM with exactly V appended to the innermost operand stack
\* (so V stands where the result of the trapping CALL is expected) and the
\* pending syscall cleared; data, globals, the other frames and every ip are
\* the serialized ones.  With no value, or an image that is not SYSCALL, no
\* operand stack changes.
C2_ResumePushesValue ==
    image.status # "none" =>
       \A arg \in FeedValues :
          LET r   == Deserialize(image, arg)
              got == SerializeState(r.vm)
              old == image.state
              top == Len(old.frames)
          IN  /\ r.err = ""
              /\ ~r.vm.syscall.set
              /\ got.data = old.data
              /\ got.globals = old.globals
              /\ FramesButTopStack(got) = FramesButTopStack(old)
              /\ top > 0 =>
                    got.frames[top].stack =
                       IF image.status = "syscall" /\ arg # NoArg
                       THEN Append(old.frames[top].stack, arg)
                       ELSE old.frames[top].stack

\* The host has resumed a SYSCALL image with a list: the list is on top of
\* the innermost stack, right after the trapping CALL.
C2_Witness ==
    /\ last.op = "deserialize" /\ image.status = "syscall"
    /\ last.arg.type = "list"
    /\ Len(vm.frames) >= 2
    /\ Len(Stack(vm)) > 1
    /\ ToTree(vm.heap, Last(Stack(vm))) = last.arg
    /\ Text(vm)[Ip(vm)].type = "call"

\* What the host can observe of the outcome of a run(): the error, the
\* status, the trap record and the state, all as plain values.
Observe(r) ==
    [err     |-> r.err,
     status  |-> StatusOf(r.vm),
     syscall |-> [r.vm.syscall EXCEPT !.args = ToTrees(r.vm.heap, r.vm.syscall.args)],
     state   |-> SerializeState(r.vm)]

\* The trapping CALL returning V inline: V is pushed on the innermost stack
\* of the very same VM object, with no serialization.
InlineReturn(v, arg) ==
    LET a == FromTree(v.heap, arg)
    IN  [PushValue([v EXCEPT !.heap = a.heap], a.v) EXCEPT !.syscall = NoSyscall]

\* C3: for a VM suspended at a syscall, deserialize(serialize(vm), V).run()
\* yields the same next trap record and the same state as the execution in
\* which the CALL returned V inline, also when a List is held through two
\* references across the suspension.
C3_ResumeEqualsInline ==
    (ReturnedFromRun /\ image.status = "syscall") =>
       \A arg \in FeedValues \ {NoArg} :
          Observe(RunLoop(Deserialize(image, arg).vm, Infinity))
             = Observe(RunLoop(InlineReturn(vm, arg), Infinity))

\* C4: deserialize(serialize(vm), no value) has the same constant pool, the
\* same frames and the same globals as vm, and running it is observationally
\* equivalent to running vm (stated here for a VM with no syscall pending,
\* the case in which run() executes instructions).
C4_RoundTripEquivalent ==
    (thrown.err = "" /\ ~vm.syscall.set) =>
       LET back == Deserialize(Serialize(vm, StatusOf(vm)), NoArg).vm
       IN  /\ SerializeState(back) = SerializeState(vm)
           /\ Observe(RunLoop(back, Infinity)) = Observe(RunLoop(vm, Infinity))

\* The callee a CALL about to execute will pop, Undef when the stack is
\* too short to hold it.
Callee(v) ==
    SeqGet(Stack(v), Len(Stack(v)) - ArgCount(NextIns(v)) - 1)

CallArgs(v) == TailN(Stack(v), ArgCount(NextIns(v)))

\* C5: the pending syscall is set only by a CALL whose callee is a Syscall
\* value; once the step that sets it is done, a larger budget executes
\* nothing more in the same run(); and any run() on a VM with a syscall
\* pending returns SYSCALL with the same record and leaves the VM as it is.
C5_OnlySyscallCallTraps ==
    /\ Runnable(vm) =>
          LET r == Step(vm)
          IN  r.vm.syscall.set =>
                 /\ NextIns(vm).type = "call"
                 /\ Callee(vm).type = "syscall"
                 /\ \A steps \in StepBudgets \ {0} : RunLoop(vm, steps) = r
    /\ vm.syscall.set =>
          \A steps \in StepBudgets :
             /\ RunLoop(vm, steps) = Ok(vm)
             /\ StatusOf(vm) = "syscall"
    /\ (last.op = "run" /\ last.pending) =>
          /\ thrown.err = ""
          /\ image.status = "syscall"
          /\ image.syscall.set
          /\ image.syscall = image.state.syscall

\* run() was called again on a VM that is suspended at a syscall.
C5_Witness ==
    /\ last.op = "run" /\ last.pending /\ last.steps = Infinity
    /\ vm.syscall.set
    /\ image.syscall.name = "got"

\* The errors a runtime rule raises.
RuntimeErrors ==
    {"InvalidType", "DivisionByZero", "IndexError", "VariableNotDeclared",
     "VariableAlreadyDeclared", "FunctionArgumentNumberMismatch",
     "NativeFunctionArgumentNumberMismatch"}

\* C6: when an instruction violates a runtime rule, run() returns a
\* snapshot whose status is ERROR.
C6_ErrorSnapshot ==
    (last.op = "run" /\ thrown.err \in RuntimeErrors) =>
       image.status = "error"

\* C7: a returning run() reports SYSCALL exactly when a syscall is pending,
\* otherwise HALTED exactly when there is no frame, otherwise RUNNING, and
\* RUNNING only when the loop ran for the whole budget; a step adds a frame
\* only by a CALL of a function, removes frames only by RET or by ip
\* reaching the end of the text, and never touches the frames below the
\* innermost one of those that remain.
C7_StatusAndFrames ==
    /\ ReturnedFromRun =>
          /\ (image.status = "syscall") = vm.syscall.set
          /\ ~vm.syscall.set => ((image.status = "halted") = (Len(vm.frames) = 0))
          /\ image.status \in {"syscall", "halted", "running"}
    /\ \A steps \in StepBudgets :
          LET r == RunLoop(vm, steps)
          IN  (r.err = "" /\ StatusOf(r.vm) = "running") =>
                 /\ steps # Infinity
                 /\ Len(r.vm.frames) > 0
                 /\ \A k \in 0..(steps - 1) :
                       LET q == RunLoop(vm, k)
                       IN  q.err = "" /\ LoopGuard(q.vm, 1)
    /\ Runnable(vm) =>
          LET r == Step(vm)
              f == Len(vm.frames)
              g == Len(r.vm.frames)
          IN  /\ g > f =>
                    /\ g = f + 1
                    /\ NextIns(vm).type = "call"
                    /\ Callee(vm).type = "function"
                    /\ LowerFramesKept(vm, r.vm)
              /\ g < f =>
                    \/ NextIns(vm).type = "ret"
                    \/ /\ g = f - 1
                       /\ Ip(Execute(vm, NextIns(vm)).vm) + 1 >= Len(Text(vm))
              /\ \A i \in 1..(g - 1) : i < f => r.vm.frames[i] = vm.frames[i]

\* A run() with a finite budget has returned RUNNING two frames deep.
C7_Witness ==
    /\ ReturnedFromRun /\ image.status = "running"
    /\ last.steps = MaxSteps
    /\ Len(vm.frames) >= 3

\* run(n) followed by run(m); the second call is not made when the first
\* one throws.
RunThenRun(v, n, m) ==
    LET r == RunLoop(v, n)
    IN  IF r.err # "" THEN r ELSE RunLoop(r.vm, m)

\* C8: run(n) followed by run(m) ends in the same state, with the same
\* status, as run(n + m), and run(0) executes nothing.
C8_BudgetSplits ==
    /\ \A n, m \in 0..MaxSteps : RunThenRun(vm, n, m) = RunLoop(vm, n + m)
    /\ RunLoop(vm, 0) = Ok(vm)

\* A run(MaxSteps) has returned in the middle of a function call.
C8_Witness ==
    /\ ReturnedFromRun /\ last.steps = MaxSteps
    /\ Runnable(vm)
    /\ Len(vm.frames) >= 2
    /\ RunLoop(vm, 1).vm # vm

\* C9: a CALL of the generic "syscall" value whose first preprocessed
\* argument is a String s records {name: s, args: the other preprocessed
\* arguments in source order}; when it is not a String the CALL raises
\* InvalidType and records nothing; any other Syscall value records its
\* syscallId with all preprocessed arguments.
C9_SyscallRecord ==
    /\ (Runnable(vm) /\ NextIns(vm).type = "call"
          /\ Callee(vm).type = "syscall") =>
          LET r    == Execute(vm, NextIns(vm))
              name == Callee(vm).s
              args == Preprocessor(name, CallArgs(vm), NextIns(vm).lineNumber)
          IN  IF name # "syscall"
              THEN r.err = "" /\ r.vm.syscall = Syscall(SyscallId(name), args)
              ELSE Len(args) > 0 =>
                      IF args[1].type = "string"
                      THEN /\ r.err = ""
                           /\ r.vm.syscall = Syscall(args[1].s, Tail(args))
                      ELSE /\ r.err = "InvalidType"
                           /\ ~r.vm.syscall.set
    /\ (image.status = "syscall" /\ image.syscall.name = "pair") =>
          image.syscall.args = <<TNum(1), TStr("x"), TNum(2)>>
    /\ (image.status = "syscall" /\ image.syscall.name = "result") =>
          image.syscall.args = <<TNum(3)>>

\* syscall("pair", 1, "x", 2) has trapped.
C9_Witness ==
    /\ ReturnedFromRun /\ image.status = "syscall"
    /\ image.syscall.name = "pair"
    /\ Len(image.syscall.args) = 3

\* C10: CALL n on a Function with n parameters pops the arguments and the
\* callee and pushes one frame whose stack is [callee, arg0, ..., arg(n-1)],
\* whose text is the body and which starts at body[0]; with another number
\* of parameters it raises FunctionArgumentNumberMismatch and pushes no
\* frame.
C10_CallPushesFrame ==
    (Runnable(vm) /\ NextIns(vm).type = "call"
       /\ Callee(vm).type = "function") =>
       LET r  == Step(vm)
           n  == NextIns(vm).value
           fn == vm.heap[Callee(vm).ref].fn
           f  == Len(vm.frames)
       IN  IF Len(fn.args) = n
           THEN /\ r.err = ""
                /\ Len(r.vm.frames) = f + 1
                /\ r.vm.frames[f] =
                      [vm.frames[f] EXCEPT !.stack = Front(Stack(vm), n + 1)]
                /\ LowerFramesKept(vm, r.vm)
                /\ Stack(r.vm) = <<Callee(vm)>> \o CallArgs(vm)
                /\ Text(r.vm) = fn.body
                /\ Ip(r.vm) = 0
                /\ Runnable(r.vm)
           ELSE /\ r.err = "FunctionArgumentNumberMismatch"
                /\ Len(r.vm.frames) = f

\* A function with two parameters has just been entered.
C10_Witness ==
    /\ ReturnedFromRun
    /\ Len(vm.frames) = 2 /\ Ip(vm) = 0
    /\ Len(Stack(vm)) = 3
    /\ Stack(vm)[1].type = "function"
    /\ Text(vm) = vm.heap[Stack(vm)[1].ref].fn.body

\* C11: RET f in a frame that has a caller pushes exactly one value on the
\* caller's operand stack (the callee's top of stack when f = 1, Null
\* otherwise), removes exactly the current frame, leaves the rest of the
\* caller's stack and every frame below as they were, and the caller goes on
\* at the instruction right after its CALL.
C11_RetReturnsToCaller ==
    (Runnable(vm) /\ NextIns(vm).type = "ret" /\ Len(vm.frames) >= 2) =>
       LET r      == Step(vm)
           f      == Len(vm.frames)
           caller == vm.frames[f - 1]
           result == IF NextIns(vm).value = 1 THEN Last(Stack(vm)) ELSE Null
       IN  /\ NextIns(vm).value = 1 => Len(Stack(vm)) > 0
           /\ r.err = ""
           /\ Len(r.vm.frames) = f - 1
           /\ \A i \in 1..(f - 2) : r.vm.frames[i] = vm.frames[i]
           /\ Stack(r.vm) = Append(caller.stack, result)
           /\ Text(r.vm) = caller.text
           /\ Ip(r.vm) = caller.ip + 1
           /\ caller.text[caller.ip + 1].type = "call"
           /\ r.vm.heap = vm.heap /\ r.vm.globals = vm.globals

\* f(1), g() and h() have returned 2, Null and Null to the root frame.
C11_Witness ==
    /\ ReturnedFromRun /\ image.status = "syscall"
    /\ image.syscall.name = "ret"
    /\ image.syscall.args = <<TNum(2), MkTree(Null, <<>>, NoFunction),
                              MkTree(Null, <<>>, NoFunction)>>

\* C12: a RET executed in the root frame pops that frame and halts the VM:
\* run() returns HALTED.
C12_RootRetHalts ==
    (Runnable(vm) /\ NextIns(vm).type = "ret" /\ Len(vm.frames) = 1) =>
       LET r == RunLoop(vm, Infinity)
       IN  /\ r.err = ""
           /\ Len(r.vm.frames) = 0
           /\ StatusOf(r.vm) = "halted"

\* C13: DECLAREGL k traps VariableAlreadyDeclared when the name data[k] is
\* bound, LOADGL k and SETGL k trap VariableNotDeclared when it is not, and a
\* trap leaves the globals and the operand stack as they were; otherwise
\* DECLAREGL pops one value and binds it, LOADGL pushes the bound value, and
\* SETGL rebinds the name to the top of stack without popping.
C13_GlobalsTrapOrBind ==
    (Runnable(vm)
       /\ NextIns(vm).type \in {"declaregl", "loadgl", "setgl"}
       /\ SeqGet(vm.data, NextIns(vm).value).type = "string") =>
       LET ins   == NextIns(vm)
           id    == vm.data[ins.value + 1].s
           bound == id \in DOMAIN vm.globals
           st    == Stack(vm)
           r     == Execute(vm, ins)
       IN  /\ (ins.type = "declaregl" /\ bound) =>
                 /\ r.err = "VariableAlreadyDeclared"
                 /\ r.line = ins.lineNumber
                 /\ r.vm = vm
           /\ (ins.type # "declaregl" /\ ~bound) =>
                 /\ r.err = "VariableNotDeclared"
                 /\ r.line = ins.lineNumber
                 /\ r.vm = vm
           /\ (ins.type = "declaregl" /\ ~bound) =>
                 /\ Len(st) > 0
                 /\ r.err = ""
                 /\ Stack(r.vm) = Front(st, 1)
                 /\ DOMAIN r.vm.globals = DOMAIN vm.globals \cup {id}
                 /\ r.vm.globals[id] = Last(st)
                 /\ \A k \in DOMAIN vm.globals : r.vm.globals[k] = vm.globals[k]
           /\ (ins.type = "loadgl" /\ bound) =>
                 /\ r.err = ""
                 /\ Stack(r.vm) = Append(st, vm.globals[id])
                 /\ r.vm.globals = vm.globals
           /\ (ins.type = "setgl" /\ bound) =>
                 /\ Len(st) > 0
                 /\ r.err = ""
                 /\ Stack(r.vm) = st
                 /\ r.vm.globals = [vm.globals EXCEPT ![id] = Last(st)]

\* x = 1 has trapped at its SETGL with the value still on the stack.
C13_Witness ==
    /\ last.op = "run" /\ thrown.err = "VariableNotDeclared"
    /\ Runnable(vm) /\ NextIns(vm).type = "setgl"
    /\ Stack(vm) = <<Num(1)>>
    /\ "x" \notin DOMAIN vm.globals

\* C14: SUBSCRIPT on a Tuple or List of length L with a Number key k traps
\* IndexError for every k outside 0..L-1 (k = L and negative k included), and
\* for every k in 0..L-1 pushes element k of the container.
C14_SubscriptInRangeOrIndexError ==
    (Runnable(vm) /\ NextIns(vm).type = "subscript"
       /\ Len(Stack(vm)) >= 2
       /\ Stack(vm)[Len(Stack(vm)) - 1].type \in {"tuple", "list"}
       /\ Last(Stack(vm)).type = "number" /\ Last(Stack(vm)).d = 1) =>
       LET st    == Stack(vm)
           k     == Last(st).n
           elems == vm.heap[st[Len(st) - 1].ref].elems
           r     == Execute(vm, NextIns(vm))
       IN  IF k >= 0 /\ k <= Len(elems) - 1
           THEN /\ r.err = ""
                /\ Stack(r.vm) = Append(Front(st, 2), elems[k + 1])
           ELSE /\ r.err = "IndexError"
                /\ r.line = NextIns(vm).lineNumber

\* C15: DIV and MOD on two Numbers trap DivisionByZero, with the line of
\* the instruction, exactly when the right operand (the top of stack) is
\* zero; otherwise DIV pushes left / right and MOD pushes left % right, the
\* remainder of the quotient truncated towards zero.
C15_DivModByZero ==
    (Runnable(vm) /\ NextIns(vm).type \in {"div", "MOD"}
       /\ Len(Stack(vm)) >= 2
       /\ Last(Stack(vm)).type = "number"
       /\ Stack(vm)[Len(Stack(vm)) - 1].type = "number") =>
       LET st    == Stack(vm)
           right == Last(st)
           left  == st[Len(st) - 1]
           r     == Execute(vm, NextIns(vm))
           v     == Last(Stack(r.vm))
           most  == Abs(left.n * right.d)
       IN  IF right.n = 0
           THEN /\ r.err = "DivisionByZero"
                /\ r.line = NextIns(vm).lineNumber
           ELSE /\ r.err = ""
                /\ Stack(r.vm) = Append(Front(st, 2), v)
                /\ v.type = "number" /\ v.d > 0
                /\ NextIns(vm).type = "div" =>
                      v.n * right.n * left.d = left.n * right.d * v.d
                /\ NextIns(vm).type = "MOD" =>
                      /\ \E q \in (-most)..most :
                            v.n * left.d * right.d
                               = v.d * (left.n * right.d - q * right.n * left.d)
                      /\ Abs(v.n) * right.d < Abs(right.n) * v.d
                      /\ v.n * left.n >= 0

\* (7 / 2) % (3 / 0) has trapped at the inner division by zero, and
\* -7 % 2 has produced -1.
C15_Witness ==
    \/ /\ last.op = "run" /\ thrown.err = "DivisionByZero"
       /\ Runnable(vm) /\ NextIns(vm).type = "div"
       /\ Stack(vm) = <<vm.globals["syscall"], Str("q"), Rat(7, 2)>>
    \/ /\ ReturnedFromRun /\ image.syscall.name = "q"
       /\ image.syscall.args = <<TNum(-1)>>
       /\ \E i \in 1..Len(Text(vm)) : Text(vm)[i].type = "MOD"

\* The JSON of a list of numbers.
TList(ns) == MkTree(ListV(1), [i \in 1..Len(ns) |-> TNum(ns[i])], NoFunction)

\* The arrays of heap w that heap h already had, other than those in but.
ArraysKept(h, w, but) ==
    /\ Len(w) >= Len(h)
    /\ \A ref \in (1..Len(h)) \ but : w[ref] = h[ref]

\* ADD on two lists: with flag 1 the left array grows by the elements the
\* right one had and the left reference is pushed; otherwise a new array
\* holds both and no array changes.  rightKept adds that the right array is
\* as it was after the append.
AddOnLists(rightKept) ==
    (Runnable(vm) /\ NextIns(vm).type = "add"
       /\ Len(Stack(vm)) >= 2
       /\ Last(Stack(vm)).type = "list"
       /\ Stack(vm)[Len(Stack(vm)) - 1].type = "list") =>
       LET st    == Stack(vm)
           right == Last(st)
           left  == st[Len(st) - 1]
           both  == vm.heap[left.ref].elems \o vm.heap[right.ref].elems
           r     == Execute(vm, NextIns(vm))
       IN  /\ r.err = ""
           /\ IF NextIns(vm).value = 1
              THEN /\ Stack(r.vm) = Append(Front(st, 2), left)
                   /\ Len(r.vm.heap) = Len(vm.heap)
                   /\ r.vm.heap[left.ref].elems = both
                   /\ ArraysKept(vm.heap, r.vm.heap, {left.ref})
                   /\ rightKept => r.vm.heap[right.ref] = vm.heap[right.ref]
              ELSE /\ Len(r.vm.heap) = Len(vm.heap) + 1
                   /\ Stack(r.vm)
                        = Append(Front(st, 2), ListV(Len(vm.heap) + 1))
                   /\ Last(r.vm.heap).elems = both
                   /\ ArraysKept(vm.heap, r.vm.heap, {})

\* C16 (as amended): ADD on two Lists with flag 1 appends the right list's
\* elements to the left list in place and pushes the left reference, every
\* other array being unchanged (the right list too, unless it is the left
\* list itself); with any other flag it pushes a freshly allocated list of
\* left's then right's elements and modifies no list.
C16_AddLists == AddOnLists(FALSE)

\* C16 (as stated): the same, and the right list is unchanged by the append
\* in every case.
C16_AddListsRightUnchanged == AddOnLists(TRUE)

\* a += c has been seen through the alias b, and c is as it was.
C16_Witness ==
    /\ ReturnedFromRun /\ image.syscall.name = "app"
    /\ image.syscall.args = <<TList(<<1, 2>>), TList(<<1, 2>>), TList(<<2>>)>>

\* C17: EQ pushes true exactly when its operands have the same tag and
\* structurally equal payloads (two separately built tuples or lists with
\* equal elements included) and false when the tags differ; NEQ pushes the
\* negation of that.
C17_EqIsStructural ==
    (Runnable(vm) /\ NextIns(vm).type \in {"eq", "neq"}
       /\ Len(Stack(vm)) >= 2
       /\ Last(Stack(vm)) # Undef
       /\ Stack(vm)[Len(Stack(vm)) - 1] # Undef) =>
       LET st    == Stack(vm)
           right == Last(st)
           left  == st[Len(st) - 1]
           same  == ToTree(vm.heap, left) = ToTree(vm.heap, right)
           r     == Execute(vm, NextIns(vm))
       IN  /\ r.err = ""
           /\ left.type # right.type => ~same
           /\ Stack(r.vm)
                = Append(Front(st, 2),
                         Bool(IF NextIns(vm).type = "eq" THEN same ELSE ~same))

\* The List values held by the operand stacks and the globals of v.
ListVals(v) ==
    {x \in UNION {{v.frames[i].stack[j] : j \in 1..Len(v.frames[i].stack)} :
                     i \in 1..Len(v.frames)}
            \cup {v.globals[k] : k \in DOMAIN v.globals} : x.type = "list"}

\* The opcodes that move a Value from one place to another.
MovingOpcodes ==
    {"load", "store", "loadgl", "setgl", "declaregl", "copy", "call", "ret"}

\* C18: within one VM a List is shared by reference.  LOAD, STORE, LOADGL,
\* SETGL, DECLAREGL, COPY, CALL and RET leave every array as it is and
\* create no List value that was not already held; MAKE_TUPLE and MAKE_LIST
\* store the very values they pop; only STORE_SUBSCRIPT and ADD with flag 1
\* change the contents of an existing array, and STORE_SUBSCRIPT changes
\* the array its operand refers to, so that a mutation through one alias is
\* what every other alias reads: run in one VM, the program that writes a
\* list through a parameter and a local reads [5, 7] through the global, the
\* returned value and the tuple element, all three one reference.
C18_ListsSharedByReference ==
    /\ Runnable(vm) =>
         LET ins == NextIns(vm)
             st  == Stack(vm)
             r   == Execute(vm, ins)
         IN  /\ Len(r.vm.heap) >= Len(vm.heap)
             /\ \A ref \in 1..Len(vm.heap) :
                   r.vm.heap[ref] # vm.heap[ref] =>
                      \/ ins.type = "store_subscript"
                      \/ ins.type = "add" /\ ins.value = 1
             /\ ins.type \in MovingOpcodes =>
                   /\ r.vm.heap = vm.heap
                   /\ ListVals(r.vm) \subseteq ListVals(vm)
             /\ (ins.type \in {"make_tuple", "make_list"} /\ r.err = "") =>
                   /\ ArraysKept(vm.heap, r.vm.heap, {})
                   /\ Last(r.vm.heap).elems = TailN(st, ArgCount(ins))
                   /\ Last(Stack(r.vm)).ref = Len(r.vm.heap)
             /\ (ins.type = "store_subscript" /\ r.err = "") =>
                   LET key  == Last(st)
                       name == st[Len(st) - 1]
                   IN  /\ Len(r.vm.heap) = Len(vm.heap)
                       /\ ArraysKept(vm.heap, r.vm.heap, {name.ref})
                       /\ (key.d = 1 /\ key.n >= 0) =>
                             r.vm.heap[name.ref].elems[key.n + 1]
                                = st[Len(st) - 2]
    /\ (last.op = "create" /\ vm = Create(Compile(SrcShared))) =>
          LET r == RunLoop(vm, Infinity)
              g == r.vm.globals["g"]
          IN  /\ r.err = "" /\ g.type = "list"
              /\ r.vm.syscall = Syscall("alias", <<g, g, g>>)
              /\ r.vm.heap[g.ref].elems = <<Num(5), Num(7)>>

\* The list made as g was written through the parameter p and appended to
\* through the local loc, and is read through g, r and t[0].
C18_Witness ==
    /\ ReturnedFromRun /\ image.syscall.name = "alias"
    /\ Len(image.syscall.args) = 3
    /\ image.syscall.args[3] = TList(<<5, 7>>)
    /\ \E ref \in 1..Len(vm.heap) :
          /\ vm.globals["g"] = ListV(ref)
          /\ vm.globals["r"] = ListV(ref)
          /\ vm.heap[ref].elems = <<Num(5), Num(7)>>

\* Every jump of an instruction stream has an operand within 0..len(text).
JumpsValid(text) ==
    \A i \in 1..Len(text) :
       text[i].type \in {"jump", "jumpf", "jumpt"} =>
          /\ text[i].value # NoVal
          /\ 0 <= text[i].value /\ text[i].value <= Len(text)

\* The instruction streams of v: the text of each frame and the body of
\* each function.
Streams(v) ==
    {v.frames[f].text : f \in 1..Len(v.frames)}
    \cup {v.heap[ref].fn.body :
             ref \in {x \in 1..Len(v.heap) : v.heap[x].kind = "function"}}

\* C19: in the top-level text and in every function body of a program that
\* compiled without error, every JUMP, JUMPF and JUMPT has a defined
\* operand t with 0 <= t <= len(text) of its own stream; no break or
\* continue placeholder is left unpatched.
C19_JumpTargetsValid == \A text \in Streams(vm) : JumpsValid(text)

\* The break of the loop in f is about to jump forward, out of the loop and
\* to an index of the body of f.
C19_Witness ==
    /\ Len(vm.frames) >= 2 /\ Runnable(vm)
    /\ NextIns(vm).type = "jump"
    /\ NextIns(vm).value > Ip(vm)
    /\ NextIns(vm).value < Len(Text(vm))

\* The bodies of the functions of v: those on the heap and those running.
Bodies(v) ==
    {v.heap[ref].fn.body :
        ref \in {x \in 1..Len(v.heap) : v.heap[x].kind = "function"}}
    \cup {v.frames[f].text : f \in 2..Len(v.frames)}

\* C20: every function body ends with RET and none of its jumps targets an
\* index past that RET; a function frame is about to execute an
\* instruction of its body whenever the VM can run, and a step that leaves
\* a function frame is the execution of a RET.
C20_FunctionsLeaveByRet ==
    /\ \A body \in Bodies(vm) :
          /\ Len(body) > 0 /\ Last(body).type = "ret"
          /\ \A i \in 1..Len(body) :
                body[i].type \in {"jump", "jumpf", "jumpt"} =>
                   body[i].value <= Len(body) - 1
    /\ (Len(vm.frames) >= 2 /\ ~vm.syscall.set /\ thrown.err = "") =>
          /\ Runnable(vm)
          /\ LET r == Step(vm)
             IN  (r.err = "" /\ Len(r.vm.frames) < Len(vm.frames)) =>
                    NextIns(vm).type = "ret"

\* f is at the RET that the compiler appended to its body, which holds the
\* jumps of a loop and a break.
C20_Witness ==
    /\ Len(vm.frames) >= 2 /\ Runnable(vm)
    /\ Ip(vm) = Len(Text(vm)) - 1
    /\ NextIns(vm).type = "ret"
    /\ \E i \in 1..Len(Text(vm)) : Text(vm)[i].type = "jump"

Reports(name, ns) ==
    (ReturnedFromRun /\ image.status = "syscall" /\ image.syscall.name = name)
       => image.syscall.args = [i \in 1..Len(ns) |-> TNum(ns[i])]

\* C22: the locals list mirrors the operand stack on every path, through
\* nested blocks, loops, break and continue: each LOAD and STORE of a local
\* acts on the slot of its declaration, so that every program reports the
\* values its declarations give: c = a + b + 1 = 4 in f(1, 2), a = 2 after
\* the inner block, and c = 3 after a loop left by break or repeated by
\* continue inside a block that had declared b = 7.
C22_LocalsMirrorStack ==
    /\ Reports("locals", <<4>>)
    /\ Reports("block", <<2>>)
    /\ Reports("leak", <<3>>)
    /\ Reports("skip", <<3>>)

\* C23: break goes to the first instruction after the innermost loop and
\* continue to the update clause of the innermost for (the condition of the
\* innermost while), an outer loop being unaffected: the for loop that sums
\* i over 0..9 and breaks at i == 5 reports 10, and its break jumps from
\* inside the loop to the instruction after the loop's closing JUMP, the
\* start of the report; the while loop around a for loop with a continue at
\* j == 1 and a break at j == 2 runs twice and reports n = 22, k = 2.
C23_BreakAndContinue ==
    /\ Reports("r", <<10>>)
    /\ Reports("nest", <<22, 2>>)
    /\ (Runnable(vm) /\ Len(vm.frames) = 1 /\ thrown.err = ""
          /\ NextIns(vm).type = "jump" /\ NextIns(vm).value > Ip(vm)
          /\ "s" \in DOMAIN vm.globals /\ "i" \in DOMAIN vm.globals) =>
          LET t == NextIns(vm).value
          IN  /\ vm.globals["i"] = Num(5)
              /\ vm.globals["s"] = Num(10)
              /\ t < Len(Text(vm))
              /\ Text(vm)[t].type = "jump" /\ Text(vm)[t].value < Ip(vm)
              /\ Text(vm)[t + 1].type = "loadgl"
              /\ vm.data[Text(vm)[t + 1].value + 1] = Str("syscall")

\* The loop was left at i == 5 and 0 + 1 + 2 + 3 + 4 has been reported.
C23_Witness ==
    /\ ReturnedFromRun /\ image.status = "syscall"
    /\ image.syscall.name = "r" /\ image.syscall.args = <<TNum(10)>>
    /\ vm.globals["i"] = Num(5)

\* C24: compiling a break or continue that is not inside a loop of the
\* same function throws SyntaxError and gives no Program, also when the
\* function is declared inside a loop; a break or continue inside a loop
\* compiles.
C24_StrayBreakIsSyntaxError ==
    last.op = "compile" =>
       /\ last.src \in StraySources =>
             /\ thrown.err = "SyntaxError"
             /\ vm = Blank
       /\ last.src \in LoopSources =>
             /\ thrown.err = ""
             /\ Text(vm) = Compile(last.src).text

\* The break in the body of a function declared in a while loop has been
\* refused.
C24_Witness ==
    /\ last.op = "compile" /\ last.src = SrcBreakInFunction
    /\ thrown.err = "SyntaxError" /\ vm = Blank

\* The instruction a reference to x and the one an assignment to x emit in
\* scope c address the same variable: LOAD i with STORE i, LOADGL of x with
\* SETGL of x.
SameTarget(c, x) ==
    LET ld  == loadVariable(c, x, 1)
        st  == assignVariable(c, x, 1)
        reads == Last(ld.text)
        writes == Last(st.text)
    IN  /\ ld.err = "" /\ st.err = ""
        /\ reads.type \in {"load", "loadgl"}
        /\ reads.type = "load" =>
              writes.type = "store" /\ writes.value = reads.value
        /\ reads.type = "loadgl" =>
              /\ writes.type = "setgl"
              /\ ld.data[reads.value + 1] = TStr(x)
              /\ st.data[writes.value + 1] = TStr(x)

\* C25: an assignment resolves its target exactly as a reference does, in
\* every scope and for every name (so that f = 5 in func f(f) assigns the
\* parameter that return f reads, and f(2) is 5), and the instruction that
\* assigns leaves the assigned value, the top of stack, on the stack.
C25_AssignMirrorsReference ==
    /\ \A c \in ScopeStates : \A x \in ScopeNames : SameTarget(c, x)
    /\ Reports("shadow", <<5>>)
    /\ (Runnable(vm) /\ thrown.err = ""
          /\ NextIns(vm).type \in {"store", "setgl"}
          /\ Len(Stack(vm)) > 0) =>
          LET r == Execute(vm, NextIns(vm))
          IN  r.err = "" =>
                 /\ Len(Stack(r.vm)) = Len(Stack(vm))
                 /\ Last(Stack(r.vm)) = Last(Stack(vm))

\* C26: declaring a local throws VariableAlreadyDeclaredInScope when, and
\* only when, the same block already declared the name: { let a; let a; }
\* is refused, while { let a = 1; { let a = 2; ... } } compiles and a
\* reference in the inner block reads the inner a, 2.
C26_RedeclarationInSameScopeOnly ==
    /\ last.op = "compile" =>
          /\ last.src = SrcRedeclare =>
                thrown.err = "VariableAlreadyDeclaredInScope"
          /\ last.src = SrcShadowBlock => thrown.err = ""
          /\ last.src \in {SrcLocals, SrcBlock} => thrown.err = ""
    /\ Reports("inner", <<2>>)

\* C27: with x holding 3, ++x and --x leave 4 and 2 on the stack and x++
\* and x-- leave 3; x then holds 4, respectively 2, whether x is a global
\* or a local, and the expression adds exactly one value to the stack (at
\* the trap, after the two arguments were taken, the stack holds the
\* locals and nothing else) and the program runs to its report without an
\* error; ++ or -- of anything but an identifier is a SyntaxError of the
\* compiler.
C27_IncAndDec ==
    /\ \A op \in {"INC", "DEC"} : \A prefix \in BOOLEAN :
          LET after  == IF op = "INC" THEN 4 ELSE 2
              result == IF prefix THEN after ELSE 3
          IN  /\ Reports(StepName(op, prefix, "global"), <<result, after>>)
              /\ Reports(StepName(op, prefix, "local"), <<result, after>>)
              /\ (ReturnedFromRun /\ image.status = "syscall"
                    /\ image.syscall.name = StepName(op, prefix, "global"))
                    => Stack(vm) = <<>> /\ vm.globals["x"] = Num(after)
              /\ (ReturnedFromRun /\ image.status = "syscall"
                    /\ image.syscall.name = StepName(op, prefix, "local"))
                    => Stack(vm) = <<Num(after)>>
    /\ (last.op = "compile" /\ last.src \in {SrcStepLiteral, SrcStepSubscript})
          => thrown.err = "SyntaxError" /\ vm = Blank
    /\ (last.op = "compile" /\ last.src \in StepSources) => thrown.err = ""
    /\ (Len(vm.frames) > 0
          /\ \E i \in 1..Len(Text(vm)) : Text(vm)[i].type \in {"inc", "dec"})
          => thrown.err = ""

\* The local x-- has left 3 as its value and 2 in the slot of x.
C27_Witness ==
    /\ ReturnedFromRun /\ image.status = "syscall"
    /\ image.syscall.name = StepName("DEC", FALSE, "local")
    /\ image.syscall.args = <<TNum(3), TNum(2)>>
    /\ Stack(vm) = <<Num(2)>>

RECURSIVE Factorial(_)
Factorial(n) == IF n <= 1 THEN 1 ELSE n * Factorial(n - 1)

\* The frame f of v runs the body of the function called name.
RunsFunction(v, f, name) ==
    \E ref \in 1..Len(v.heap) :
       /\ v.heap[ref].kind = "function"
       /\ v.heap[ref].fn.name = name
       /\ v.heap[ref].fn.body = v.frames[f].text

\* C28: a reference to the function's own name inside its body is LOAD 0;
\* when the body of a frame created by CALL starts, slot 0 holds the
\* callee, whose body is the text of the frame, followed by the arguments;
\* so the recursive factorial calls itself at every depth, the activation
\* at depth k keeping its own n = 5 - k in its frame, and fact(5) is 120.
C28_SelfReferenceBySlotZero ==
    /\ \A c \in ScopeStates :
          (Len(c.locals) > 0 /\ c.locals[1].depth = 0
             /\ LastLocal(c.locals, c.locals[1].name) = 0) =>
             LET ld == loadVariable(c, c.locals[1].name, 1)
             IN  Last(ld.text).type = "load" /\ Last(ld.text).value = 0
    /\ \A f \in 2..Len(vm.frames) :
          (vm.frames[f].ip = 0 /\ thrown.err = "") =>
             /\ Len(vm.frames[f].stack) >= 1
             /\ LET callee == vm.frames[f].stack[1]
                IN
                 /\ callee.type = "function"
                 /\ vm.heap[callee.ref].fn.body = vm.frames[f].text
                 /\ Len(vm.frames[f].stack)
                       = 1 + Len(vm.heap[callee.ref].fn.args)
                 /\ vm.frames[f - 1].text[vm.frames[f - 1].ip + 1].type
                       = "call"
    /\ \A f \in 2..Len(vm.frames) :
          (RunsFunction(vm, f, "fact") /\ thrown.err = "") =>
             /\ f <= MaxFact + 1
             /\ Len(vm.frames[f].stack) >= 2
             /\ vm.frames[f].stack[1].type = "function"
             /\ vm.heap[vm.frames[f].stack[1].ref].fn.name = "fact"
             /\ vm.frames[f].stack[2] = Num(MaxFact - (f - 2))
    /\ Reports("fact", <<Factorial(MaxFact)>>)

\* The recursion is at its deepest: five activations of fact, the
\* innermost with n = 1, each with fact in its slot 0.
C28_Witness ==
    /\ Len(vm.frames) = MaxFact + 1 /\ thrown.err = ""
    /\ RunsFunction(vm, MaxFact + 1, "fact")
    /\ vm.frames[MaxFact + 1].stack[2] = Num(1)
    /\ vm.frames[2].stack[2] = Num(MaxFact)

\* The first instruction of the body of func g(params) { return x; } when
\* the declaration is compiled in the scope c.
ReferenceIn(c, params, x) ==
    LET fc == function(c, Func(1, "g", params,
                               BlockOf(1, <<Ret(1, Id(1, x))>>)))
        fn == fc.data[Len(c.data) + 1].fn
    IN  [err |-> fc.err, ins |-> fn.body[1],
         name |-> SeqGet(fc.data, fn.body[1].value)]

CaptureParams == {<<>>, <<"b">>, <<"x", "b">>}

\* The innermost frame of v is about to execute the first instruction of
\* the body of the function called name.
Enters(v, name) ==
    /\ Len(v.frames) >= 2
    /\ RunsFunction(v, Len(v.frames), name)
    /\ Ip(v) = 0
    /\ ~v.syscall.set

\* C29: a function body captures nothing: in func g(params) { return x; }
\* declared in any scope, x compiles to LOAD of its slot when it is g or a
\* parameter and to LOADGL of the name x otherwise, also when x is a local
\* of the enclosing block or function; at run time that LOADGL throws
\* VariableNotDeclared when no global x exists, although the enclosing
\* frame holds the local, and reads the global (9, never the local 1) when
\* one exists, so the capturing programs never reach their report.
C29_NoFreeVariableCapture ==
    /\ \A c \in ScopeStates : \A params \in CaptureParams :
       \A x \in ScopeNames \cup {"g"} :
          LET r == ReferenceIn(c, params, x)
          IN  /\ r.err = ""
              /\ IF \E i \in 1..Len(params) : params[i] = x
                 THEN /\ r.ins.type = "load"
                      /\ r.ins.value >= 1
                      /\ params[r.ins.value] = x
                 ELSE IF x = "g"
                 THEN r.ins.type = "load" /\ r.ins.value = 0
                 ELSE /\ r.ins.type = "loadgl"
                      /\ r.name # Undef
                      /\ r.name.type = "string" /\ r.name.s = x
    /\ \A name \in {"peek", "held"} :
          (Enters(vm, name) /\ thrown.err \in {"", "VariableNotDeclared"}) =>
             /\ NextIns(vm).type = "loadgl"
             /\ SeqGet(vm.data, NextIns(vm).value).s = "a"
             /\ \E i \in 1..Len(vm.frames[Len(vm.frames) - 1].stack) :
                   vm.frames[Len(vm.frames) - 1].stack[i] \in {Num(1), Num(3)}
             /\ LET r == Execute(vm, NextIns(vm))
                IN  IF "a" \in DOMAIN vm.globals
                    THEN /\ r.err = ""
                         /\ Last(Stack(r.vm)) = vm.globals["a"]
                         /\ vm.globals["a"] = Num(9)
                    ELSE r.err = "VariableNotDeclared"
    /\ ~(ReturnedFromRun /\ image.status = "syscall"
           /\ image.syscall.name = "cap")
    /\ Reports("capgl", <<9>>)

C29_Witness ==
    /\ thrown.err = "VariableNotDeclared"
    /\ Len(vm.frames) = 2
    /\ RunsFunction(vm, 2, "peek")
    /\ vm.frames[1].stack[1] = Num(1)
    /\ NextIns(vm).type = "loadgl"
    /\ "a" \notin DOMAIN vm.globals

\* Every opcode of the VM.
Opcodes ==
    {"push", "data", "pop", "jump", "jumpf", "jumpt", "call", "ret", "store",
     "load", "declaregl", "loadgl", "setgl", "copy", "make_tuple",
     "make_list", "subscript", "store_subscript", "nop"}
    \cup BinaryOpcodes \cup UnaryOpcodes

GlobalOpcodes == {"declaregl", "loadgl", "setgl"}

\* The instructions executed on a VM v: every opcode with a small operand,
\* DECLAREGL, LOADGL and SETGL with the index of a string constant, as the
\* compiler emits them.
Instructions(v) ==
    {Instruction(op, 1, value) :
        op \in Opcodes \ GlobalOpcodes, value \in {NoVal, 0, 1, 2}}
    \cup {Instruction(op, 1, i - 1) :
             op \in GlobalOpcodes,
             i \in {j \in 1..Len(v.data) : v.data[j].type = "string"}}

\* The constant pool of w is that of v, entry by entry, function bodies
\* included.
DataKept(v, w) ==
    /\ w.data = v.data
    /\ \A i \in 1..Len(v.data) :
          v.data[i].type = "function" =>
             /\ v.data[i].ref <= Len(w.heap)
             /\ w.heap[v.data[i].ref] = v.heap[v.data[i].ref]

\* The globals of w are those of v but for the binding of id, which is
\* bound to value.
Rebound(v, w, id, value) ==
    /\ DOMAIN w.globals = DOMAIN v.globals \cup {id}
    /\ w.globals[id] = value
    /\ \A k \in DOMAIN v.globals \ {id} : w.globals[k] = v.globals[k]

\* C30: executing any instruction, the next one of the program included, on
\* any VM the programs reach leaves the constant pool as it was, and leaves every global bound to the value it
\* was bound to (for a list, to the same list) unless the instruction is a
\* DECLAREGL or a SETGL that does not throw; DECLAREGL then adds the one
\* binding of its name and SETGL replaces the one binding of its name, both
\* with the top of the stack.  A run of any number of steps leaves the
\* constant pool as it was.
C30_GlobalsAndDataFrame ==
    /\ (Len(vm.frames) > 0 /\ ~vm.syscall.set) =>
          \A ins \in Instructions(vm)
                       \cup (IF Runnable(vm) THEN {NextIns(vm)} ELSE {}) :
             LET r  == Execute(vm, ins)
                 id == SeqGet(vm.data, ins.value).s
             IN  /\ DataKept(vm, r.vm)
                 /\ (ins.type \notin GlobalOpcodes \/ ins.type = "loadgl"
                       \/ r.err # "") => r.vm.globals = vm.globals
                 /\ (ins.type = "declaregl" /\ r.err = "") =>
                       /\ id \notin DOMAIN vm.globals
                       /\ Rebound(vm, r.vm, id, Last(Stack(vm)))
                 /\ (ins.type = "setgl" /\ r.err = "") =>
                       /\ id \in DOMAIN vm.globals
                       /\ Rebound(vm, r.vm, id,
                                  IF Len(Stack(vm)) = 0 THEN Undef
                                  ELSE Last(Stack(vm)))
    /\ \A steps \in HostBudgets : DataKept(vm, RunLoop(vm, steps).vm)

C30_Witness ==
    /\ thrown.err = "" /\ Len(vm.frames) = 1 /\ Ip(vm) >= 1
    /\ Text(vm)[Ip(vm)].type = "setgl"
    /\ SeqGet(vm.data, Text(vm)[Ip(vm)].value).s = "x"
    /\ vm.globals["x"] = Num(4)
    /\ Last(Stack(vm)) = Num(4)
    /\ vm.data = Create(Compile(SrcStepGlobal("INC", TRUE))).data

\* The VM runs the program of src: its constant pool is the one create()
\* was given.
Holds(v, src) == v.data = Create(Compile(src)).data

\* C31: the VM that create(program) returns has one frame with ip = 0, an
\* empty stack and the text of the program, no pending syscall, and globals
\* that bind exactly the native names to Native values and the syscall
\* names to Syscall values of the same name; a top-level let or func of
\* such a name is a DECLAREGL that throws VariableAlreadyDeclared, so these
\* programs never get past it and their globals stay as created.
C31_CreatedVM ==
    /\ (last.op = "compile" /\ thrown.err = "") =>
          /\ Len(vm.frames) = 1
          /\ vm.frames[1].ip = 0
          /\ vm.frames[1].stack = <<>>
          /\ vm.frames[1].text = Compile(last.src).text
          /\ Len(vm.data) = Len(Compile(last.src).data)
          /\ ~vm.syscall.set
          /\ DOMAIN vm.globals = NativeNames \cup SyscallNames
          /\ \A k \in NativeNames : vm.globals[k] = NativeV(k)
          /\ \A k \in SyscallNames : vm.globals[k] = SyscallV(k)
    /\ \A src \in ClashSources :
          (last.op # "create" /\ Holds(vm, src)) =>
             /\ thrown.err \in {"", "VariableAlreadyDeclared"}
             /\ vm.globals = Blank.globals
             /\ Len(vm.frames) = 1 /\ Ip(vm) <= 1
             /\ Ip(vm) = 1 =>
                   /\ NextIns(vm).type = "declaregl"
                   /\ Execute(vm, NextIns(vm)).err = "VariableAlreadyDeclared"
             /\ (last.op = "run" /\ last.steps = 2) => thrown.err # ""

C31_Witness ==
    /\ last.op = "run"
    /\ thrown.err = "VariableAlreadyDeclared"
    /\ Holds(vm, SrcClashFunc("input"))
    /\ vm.globals["input"] = SyscallV("input")
    /\ Stack(vm)[1].type = "function"

\* The first instruction after the first loop of text (the target of the
\* loop's JUMPF) and the start of that loop (the target of the JUMP that
\* ends it, which is the instruction before the exit).
LoopExit(text) ==
    LET first == CHOOSE i \in 1..Len(text) :
                    /\ text[i].type = "jumpf"
                    /\ \A j \in 1..(i - 1) : text[j].type # "jumpf"
    IN  text[first].value

LoopStart(text) == text[LoopExit(text)].value

\* The frame that runs the first loop of src (the body of its function for
\* the loops that are inside one) and the stack height of that frame before
\* the loop: the callee and the local declared before the loop, or nothing.
LoopFrame(src) == IF src \in {SrcBreakLeak, SrcContinueLeak} THEN 2 ELSE 1
LoopBase(src)  == IF src \in {SrcBreakLeak, SrcContinueLeak} THEN 2 ELSE 0

\* The innermost frame of the program of src is at the start or at the exit
\* of the first loop it runs.
AtLoopEdge(src) ==
    /\ last.op # "create" /\ thrown.err = "" /\ Holds(vm, src)
    /\ Len(vm.frames) = LoopFrame(src)
    /\ ~vm.syscall.set
    /\ Ip(vm) \in {LoopStart(Text(vm)), LoopExit(Text(vm))}

\* C32: a loop is stack-balanced on every path: whenever the frame is at
\* the start of the loop (before the condition of any iteration) or at the
\* first instruction after it, also after a break or a continue from inside
\* a block that declared a local, the stack is as high as before the loop.
C32_StatementsBalanced ==
    \A src \in LoopSources :
       AtLoopEdge(src) => Len(Stack(vm)) = LoopBase(src)

\* The program has trapped with the report called name.
Reported(name) ==
    ReturnedFromRun /\ image.status = "syscall" /\ image.syscall.name = name

Max(a, b) == IF a >= b THEN a ELSE b

\* C33: an if/else runs its then branch alone when the condition is truthy
\* and its else branch alone otherwise (r is 1 or 10, never 0 or 11), and an
\* if without else runs on after either; a while loop that starts at n = k
\* runs its body max(0, 3 - k) times and then goes on after the loop; a for
\* loop with an empty condition has a NOP where the JUMPF would be, leaves
\* only through break, and without a break never leaves.  Step by step, a
\* JUMPF pops the condition and goes to the next instruction when it is
\* truthy and to its target otherwise, and a JUMP goes to its target.
C33_BranchesAndLoops ==
    /\ \A c \in Conditions :
          /\ Reports("ifelse" \o c.name, <<IF c.truthy THEN 1 ELSE 10>>)
          /\ Reports("if" \o c.name, <<IF c.truthy THEN 11 ELSE 10>>)
    /\ Reported("count") =>
          \E k \in LoopStarts :
             image.syscall.args =
                <<TNum(k), TNum(Max(0, LoopLimit - k)), TNum(Max(k, LoopLimit))>>
    /\ Reports("forever", <<LoopLimit, LoopLimit>>)
    /\ ~Reported("spun")
    /\ \A src \in ControlSources :
          (last.op # "create" /\ Holds(vm, src)) =>
             /\ thrown.err = ""
             /\ src \in {SrcForEver, SrcSpin} =>
                   \A i \in 1..Len(Compile(src).text) :
                      Compile(src).text[i].type = "jumpf" =>
                         Compile(src).text[i].lineNumber = 3
             /\ src = SrcSpin => (Len(vm.frames) = 1 /\ ~vm.syscall.set)
    /\ (Runnable(vm) /\ thrown.err = ""
          /\ NextIns(vm).type \in {"jump", "jumpf"}
          /\ NextIns(vm).value < Len(Text(vm))) =>
          LET r    == Step(vm)
              cond == Last(Stack(vm))
          IN  IF NextIns(vm).type = "jump"
              THEN /\ r.err = ""
                   /\ Ip(r.vm) = NextIns(vm).value
                   /\ Stack(r.vm) = Stack(vm)
              ELSE (Len(Stack(vm)) >= 1 /\ cond # Undef) =>
                      /\ r.err = ""
                      /\ Stack(r.vm) = Front(Stack(vm), 1)
                      /\ Ip(r.vm) = IF Truthy(cond) THEN Ip(vm) + 1
                                    ELSE NextIns(vm).value

C33_Witness ==
    /\ Reported("ifelsezero")
    /\ image.syscall.args = <<TNum(10)>>
    /\ vm.globals["r"] = Num(10)

\* The VM is about to execute a STORE_SUBSCRIPT with its three operands on
\* the stack.
AtStoreSubscript ==
    /\ Runnable(vm) /\ thrown.err = ""
    /\ NextIns(vm).type = "store_subscript"
    /\ Len(Stack(vm)) >= 3
    /\ \A i \in 0..2 : Stack(vm)[Len(Stack(vm)) - i] # Undef

\* The parts of the statement about STORE_SUBSCRIPT that do not concern a
\* key out of range: a container that is not a List throws InvalidType and
\* no array changes, a key in range replaces that one element, and the
\* written value replaces the three operands.
StoreSubscriptTyped ==
    AtStoreSubscript =>
       LET st    == Stack(vm)
           key   == st[Len(st)]
           name  == st[Len(st) - 1]
           value == st[Len(st) - 2]
           r     == Execute(vm, NextIns(vm))
       IN  /\ name.type # "list" =>
                /\ r.err = "InvalidType"
                /\ r.vm.heap = vm.heap
           /\ (name.type = "list" /\ key.type = "number" /\ key.d = 1
                 /\ key.n \in 0..(Len(vm.heap[name.ref].elems) - 1)) =>
                /\ r.err = ""
                /\ r.vm.heap =
                      [vm.heap EXCEPT ![name.ref].elems[key.n + 1] = value]
                /\ Stack(r.vm) = Append(Front(st, 3), value)

\* The arrays of the tuples that v holds on a stack, in a global or in an
\* array.
TupleRefs(v) ==
    LET held == UNION {{v.frames[f].stack[i] :
                                i \in 1..Len(v.frames[f].stack)} :
                            f \in 1..Len(v.frames)}
                \cup {v.globals[k] : k \in DOMAIN v.globals}
                \cup UNION {{v.heap[r].elems[i] :
                                i \in 1..Len(v.heap[r].elems)} :
                            r \in 1..Len(v.heap)}
    IN  {x.ref : x \in {y \in held : y # Undef /\ y.type = "tuple"}}

\* No instruction changes a tuple.
TuplesKept ==
    (Len(vm.frames) > 0 /\ ~vm.syscall.set) =>
       \A ins \in Instructions(vm)
                    \cup (IF Runnable(vm) THEN {NextIns(vm)} ELSE {}) :
          \A ref \in TupleRefs(vm) :
             Execute(vm, ins).vm.heap[ref] = vm.heap[ref]

\* C34: STORE_SUBSCRIPT writes only into Lists and only at existing
\* positions: a container that is not a List throws InvalidType and no
\* instruction changes a Tuple; on a List of length L a Number key outside
\* 0..L-1 throws IndexError and the length stays L; a key in range replaces
\* that element and leaves the written value in place of the operands.
C34_StoreSubscriptInBounds ==
    /\ StoreSubscriptTyped
    /\ TuplesKept
    /\ AtStoreSubscript =>
          LET st   == Stack(vm)
              key  == st[Len(st)]
              name == st[Len(st) - 1]
              r    == Execute(vm, NextIns(vm))
          IN  (name.type = "list" /\ key.type = "number"
                 /\ ~(key.d = 1
                       /\ key.n \in 0..(Len(vm.heap[name.ref].elems) - 1))) =>
                 /\ r.err = "IndexError"
                 /\ Len(r.vm.heap[name.ref].elems)
                       = Len(vm.heap[name.ref].elems)

\* run() would fetch an instruction of v: the condition of its loop holds
\* for a positive budget.
Fetches(v) == LoopGuard(v, 1)

\* The ip of the innermost frame of v is an index of its text.
IpWithinText(v) == Ip(v) >= 0 /\ Ip(v) < Len(Text(v))

\* C35: whenever run() fetches an instruction, the ip of the innermost
\* frame is an index of that frame's text, for every program, the program
\* without instructions included; run() on the VM created from that program
\* returns HALTED and throws nothing.
C35_FetchWithinText ==
    /\ (last.op # "create" /\ thrown.err = "" /\ Fetches(vm)) =>
          IpWithinText(vm)
    /\ (last.op = "run" /\ Holds(vm, SrcEmpty)) =>
          /\ thrown.err = ""
          /\ image.status = "halted"

\* The runtime errors of the arithmetic, comparison, logic, subscript and
\* CALL opcodes.
OperandErrors ==
    {"InvalidType", "DivisionByZero", "IndexError",
     "FunctionArgumentNumberMismatch", "NativeFunctionArgumentNumberMismatch"}

\* v and w differ at most in the operand stack of the innermost frame.
SameButStack(v, w) ==
    /\ w.globals = v.globals
    /\ w.data = v.data
    /\ Len(w.frames) = Len(v.frames)
    /\ \A f \in 1..Len(v.frames) :
          /\ w.frames[f].ip = v.frames[f].ip
          /\ w.frames[f].text = v.frames[f].text
          /\ f < Len(v.frames) => w.frames[f].stack = v.frames[f].stack

\* C36: an instruction that throws a runtime error leaves the VM as it was
\* before the instruction was fetched: the same frames, with the same ip
\* and the same operand stack each, and the same globals.
C36_TrapHasNoEffect ==
    (Runnable(vm) /\ thrown.err = "") =>
       LET r == Execute(vm, NextIns(vm))
       IN  r.err \in OperandErrors =>
              /\ SameButStack(vm, r.vm)
              /\ Stack(r.vm) = Stack(vm)

\* The bytes and lines written are read back reduced to a byte.
WritesKeptAsBytes ==
    /\ size(chunk) = Len(calls.writes)
    /\ chunk.count <= chunk.capacity
    /\ \A i \in 0..(size(chunk) - 1) :
          /\ get(chunk, i) = ToUint8(calls.writes[i + 1][1])
          /\ getLine(chunk, i) = ToUint8(calls.writes[i + 1][2])

\* C37: after any sequence of writes, also one that doubles the capacity
\* and one with a byte or a line above 255, size is the number of writes,
\* count is at most capacity, and get(i) and getLine(i) are the byte and
\* the line of the i-th write.
C37_ChunkKeepsWrites ==
    calls.op # "none" =>
       /\ size(chunk) = Len(calls.writes)
       /\ chunk.count <= chunk.capacity
       /\ \A i \in 0..(size(chunk) - 1) :
             /\ get(chunk, i) = calls.writes[i + 1][1]
             /\ getLine(chunk, i) = calls.writes[i + 1][2]

\* What makeConstant does: it returns the index of the constant it added,
\* at most 255, and throws from the 257th constant on, after adding it.
MakeConstantAddsFirst ==
    calls.op = "makeConstant" =>
       /\ chunk.constants = Append(calls.before, calls.value)
       /\ calls.ret = Len(calls.before)
       /\ getConstant(chunk, calls.ret) = calls.value
       /\ (calls.err # "") = (Len(calls.before) >= MaxConstantIndex + 1)
       /\ calls.err = "" => calls.ret <= MaxConstantIndex

\* C38: makeConstant(v) returns an index c <= 255 with getConstant(c) = v,
\* throws when the chunk already holds 256 constants, and then leaves the
\* constants as they were, so that a chunk never holds more than 256.
C38_MakeConstantBounded ==
    calls.op = "makeConstant" =>
       /\ calls.err = "" =>
             /\ calls.ret <= MaxConstantIndex
             /\ getConstant(chunk, calls.ret) = calls.value
       /\ (calls.err # "") = (Len(calls.before) >= MaxConstantIndex + 1)
       /\ calls.err # "" => chunk.constants = calls.before
       /\ Len(chunk.constants) <= MaxConstantIndex + 1

====
